---- MODULE Spec2Model ----
(***************************************************************************)
(* LiquifyLab: the App component (layer stack and undo history) and the    *)
(* LiquifyCanvas component (displacement-map warp engine, bake, gestures). *)
(*                                                                         *)
(* Numbers.  The program computes in IEEE doubles and stores map entries   *)
(* in Float32Array.  Here every coordinate is an integer count of 1/UNIT   *)
(* (a binary fixed-point grid), the falloff factor is a count of 1/FINE,   *)
(* and a product is rounded once, where the program stores it.  On the     *)
(* inputs used (multiples of 1/2 and 1/4) the program's arithmetic is      *)
(* exact wherever no square root of a non-square is taken, and there the   *)
(* grid value is the program's value.                                      *)
(*                                                                         *)
(* Arrays are 0-based in the program and 1-based here: At(arr, i) reads    *)
(* index i of the program's array.                                         *)
(***************************************************************************)
EXTENDS Integers, Sequences, FiniteSets, TLC

VARIABLES
  layers,                \* App: useState<Layer[]>
  activeLayerId,         \* App: useState<string>, NoId for ''
  history,               \* App: useState<HistoryStep[]>
  historyIndex,          \* App: useState(-1)
  pendingLoads,          \* App: images whose img.onload has not run yet, each with the render it closed over
  pendingGeneration,     \* App: the render handleGenerate closed over while its await is pending (isGenerating), else NoGeneration
  alerts,                \* browser: number of alert() dialogs shown
  tool,                  \* App: activeTool
  brushSettings,         \* App: brushSettings [size, strength]
  zoomLevel,             \* App: zoomLevel
  isDrawing,             \* LiquifyCanvas: isDrawing
  lastPoint,             \* LiquifyCanvas: lastPoint (NoPoint for null)
  lassoPath,             \* LiquifyCanvas: lassoPath
  transformHandle,       \* LiquifyCanvas: transformHandle
  startTransformState,   \* LiquifyCanvas: startTransformState (NoTransform for null)
  mapXRef,               \* LiquifyCanvas: mapXRef.current (<<>> for null)
  mapYRef,               \* LiquifyCanvas: mapYRef.current (<<>> for null)
  activeOriginalDataRef, \* LiquifyCanvas: activeOriginalDataRef.current
  loadedLayerIdRef,      \* LiquifyCanvas: loadedLayerIdRef.current
  distortCalls,          \* log: arguments of the applyDistortion calls since the map was last identity
  lastOp,                \* log: the handler that ran last
  events,                \* log: number of handlers run that changed the state
  lastCommits,           \* log: the arguments of the last two commitToHistory calls
  sinceCommit,           \* log: handlers run since the last commitToHistory call (2 for more)
  beforeUndo             \* log: layers and active id before an undo made at the last snapshot with no gesture in progress, while that undo is the last handler run

appVars    == <<layers, activeLayerId, history, historyIndex>>
toolVars   == <<tool, brushSettings, zoomLevel>>
gestureVars == <<isDrawing, lastPoint, lassoPath, transformHandle, startTransformState>>
engineVars == <<mapXRef, mapYRef, activeOriginalDataRef, loadedLayerIdRef>>
logVars    == <<distortCalls, lastOp, events, lastCommits, sinceCommit, beforeUndo>>
loadVars   == <<pendingLoads, pendingGeneration, alerts>>
vars == <<layers, activeLayerId, history, historyIndex, pendingLoads, pendingGeneration, alerts, tool, brushSettings, zoomLevel,
          isDrawing, lastPoint, lassoPath, transformHandle, startTransformState,
          mapXRef, mapYRef,
          activeOriginalDataRef, loadedLayerIdRef, distortCalls, lastOp, events,
          lastCommits, sinceCommit, beforeUndo>>

----------------------------------------------------------------------------
(* Bounds of the model *)

MaxEvents == 4
MaxLayers == 2
MaxStrokes == 2
MaxPending == 1

(* Program constants *)

HISTORY_MAX_STEPS == 20
MAX_IMAGE_DIMENSION == 2048

----------------------------------------------------------------------------
(* Numbers *)

UNIT == 2^8
FINE == 2^10

Min(a, b) == IF a < b THEN a ELSE b
Max(a, b) == IF a > b THEN a ELSE b
Abs(a) == IF a < 0 THEN 0 - a ELSE a

\* a/b rounded to the nearest integer (b > 0 and even, or 1)
RoundDiv(a, b) == (a + (b \div 2)) \div b

\* Math.floor of a grid value, as an integer
Floor(u) == u \div UNIT

\* Math.ceil of a grid value, as an integer
Ceil(u) == 0 - ((0 - u) \div UNIT)

RECURSIVE SqrtSearch(_, _, _)
SqrtSearch(n, lo, hi) ==
  IF lo >= hi THEN lo
  ELSE LET mid == (lo + hi + 1) \div 2
       IN IF mid * mid <= n THEN SqrtSearch(n, mid, hi)
          ELSE SqrtSearch(n, lo, mid - 1)

\* Math.sqrt on the grid: n is a count of 1/UNIT^2, the result a count of 1/UNIT
Sqrt(n) == SqrtSearch(n, 0, 46340)

At(arr, i) == arr[i + 1]

----------------------------------------------------------------------------
(* types.ts *)

ToolType == {"WARP", "BLOAT", "PUCKER", "TWIRL_CW", "LASSO", "TRANSFORM"}

NoId == 0
NoPoint == <<>>
NoTransform == <<>>
NoGeneration == <<>>

\* null where an ImageData is expected
NullImage == [ref |-> 0, width |-> 0, height |-> 0, data |-> <<>>]

\* new ImageData(data, width, height): a buffer of its own, named by ref
ImageData(ref, data, width, height) ==
  [ref |-> ref, width |-> width, height |-> height, data |-> data]

----------------------------------------------------------------------------
(* LiquifyCanvas: 1. Layer Engine Initialization *)

IdentityMapX(w, h) == [i \in 1..(w * h) |-> ((i - 1) % w) * UNIT]
IdentityMapY(w, h) == [i \in 1..(w * h) |-> ((i - 1) \div w) * UNIT]

\* The four engine refs as one record
Engine(mx, my, orig, id) ==
  [mapX |-> mx, mapY |-> my, original |-> orig, loadedLayerId |-> id]

NullEngine == Engine(<<>>, <<>>, NullImage, NoId)

\* An initEngine that keeps a map of the right length as it is
initEngineKeepsMap(eng, layer) ==
  IF layer.imageData = NullImage THEN eng
  ELSE LET w == layer.imageData.width
           h == layer.imageData.height
       IN IF Len(eng.mapX) = w * h
          THEN Engine(eng.mapX, eng.mapY, layer.imageData, layer.id)
          ELSE Engine(IdentityMapX(w, h), IdentityMapY(w, h), layer.imageData, layer.id)

initEngine(eng, layer) ==
  IF layer.imageData = NullImage THEN eng
  ELSE LET w == layer.imageData.width
           h == layer.imageData.height
       IN Engine(IdentityMapX(w, h), IdentityMapY(w, h), layer.imageData, layer.id)

----------------------------------------------------------------------------
(* LiquifyCanvas: 3. Rendering *)

Clamp(lo, hi, x) == Max(lo, Min(hi, x))

\* Storing a number into a Uint8ClampedArray: n/d rounded to the nearest
\* integer, ties to even, clamped to 0..255.  m names the value of n, so that
\* n is evaluated once
ToUint8Clamped(n, d) ==
  LET Rounded(m) == LET q == m \div d
                        r == m % d
                    IN IF 2 * r > d THEN q + 1
                       ELSE IF 2 * r = d THEN q + (q % 2)
                       ELSE q
  IN CHOOSE b \in {Clamp(0, 255, Rounded(m)) : m \in {n}} : TRUE

\* The neighbour cell left as it is, not clamped to the axis
ClampIndexFree(n, x) == x

\* Math.max(0, Math.min(n - 1, x)): cell x clamped to an axis of n cells
ClampIndex(n, x) == Max(0, Min(n - 1, x))

\* The bilinear weights of the two neighbours swapped on both axes
RenderChannelSwapped(globalX, globalY, c, totalW, mapX, mapY, original) ==
  LET originalPixels == original.data
      origW == original.width
      origH == original.height
      pIndex == globalY * totalW + globalX
      srcX == At(mapX, pIndex)
      srcY == At(mapY, pIndex)
      x0 == Floor(srcX)
      y0 == Floor(srcY)
      sx0 == Max(0, Min(origW - 1, x0))
      sx1 == Max(0, Min(origW - 1, x0 + 1))
      sy0 == Max(0, Min(origH - 1, y0))
      sy1 == Max(0, Min(origH - 1, y0 + 1))
      u == UNIT - (srcX - x0 * UNIT)
      v == UNIT - (srcY - y0 * UNIT)
  IN ToUint8Clamped(
       At(originalPixels, (sy0 * origW + sx0) * 4 + c) * (UNIT - u) * (UNIT - v)
       + At(originalPixels, (sy0 * origW + sx1) * 4 + c) * u * (UNIT - v)
       + At(originalPixels, (sy1 * origW + sx0) * 4 + c) * (UNIT - u) * v
       + At(originalPixels, (sy1 * origW + sx1) * 4 + c) * u * v,
       UNIT * UNIT)

\* One channel of one output pixel of renderRegionFromMapsRef
RenderChannel(globalX, globalY, c, totalW, mapX, mapY, original) ==
  LET originalPixels == original.data
      origW == original.width
      origH == original.height
      pIndex == globalY * totalW + globalX
      srcX == At(mapX, pIndex)
      srcY == At(mapY, pIndex)
      x0 == Floor(srcX)
      y0 == Floor(srcY)
      sx0 == ClampIndex(origW, x0)
      sx1 == ClampIndex(origW, x0 + 1)
      sy0 == ClampIndex(origH, y0)
      sy1 == ClampIndex(origH, y0 + 1)
      u == srcX - x0 * UNIT
      v == srcY - y0 * UNIT
      i00 == (sy0 * origW + sx0) * 4
      i10 == (sy0 * origW + sx1) * 4
      i01 == (sy1 * origW + sx0) * 4
      i11 == (sy1 * origW + sx1) * 4
  IN ToUint8Clamped(
       At(originalPixels, i00 + c) * (UNIT - u) * (UNIT - v)
       + At(originalPixels, i10 + c) * u * (UNIT - v)
       + At(originalPixels, i01 + c) * (UNIT - u) * v
       + At(originalPixels, i11 + c) * u * v,
       UNIT * UNIT)

\* The outputBuffer renderRegionFromMapsRef fills for a region
renderRegionFromMapsRef(startX, startY, regionW, regionH, totalW, totalH, mapX, mapY, original) ==
  [k \in 1..(regionW * regionH * 4) |->
     LET outIndex == k - 1
         c == outIndex % 4
         x == (outIndex \div 4) % regionW
         y == (outIndex \div 4) \div regionW
     IN RenderChannel(startX + x, startY + y, c, totalW, mapX, mapY, original)]

----------------------------------------------------------------------------
(* LiquifyCanvas: 2. Committing Changes *)

\* A bake that copies the original raster and leaves the map out
bakeCurrentWarpOriginal(eng, newRef) ==
  IF eng.mapX = <<>> \/ eng.mapY = <<>> \/ eng.original = NullImage THEN NullImage
  ELSE ImageData(newRef, eng.original.data, eng.original.width, eng.original.height)

\* bakeCurrentWarp: NullImage for null; newRef names the created ImageData
bakeCurrentWarp(eng, newRef) ==
  IF eng.mapX = <<>> \/ eng.mapY = <<>> \/ eng.original = NullImage THEN NullImage
  ELSE LET w == eng.original.width
           h == eng.original.height
       IN ImageData(newRef,
                    renderRegionFromMapsRef(0, 0, w, h, w, h, eng.mapX, eng.mapY,
                                            eng.original),
                    w, h)

----------------------------------------------------------------------------
(* LiquifyCanvas: applyDistortion *)

\* The arguments of one applyDistortion call, and what it reads from the
\* component: the brush centre and the previous point in layer-local space,
\* the local radius, the strength and the tool
DistortCall(mouseX, mouseY, prevX, prevY, localRadius, strength, t) ==
  [mouseX |-> mouseX, mouseY |-> mouseY, prevX |-> prevX, prevY |-> prevY,
   localRadius |-> localRadius, strength |-> strength, tool |-> t]

\* const localRadius = (size / 2) / zoomLevel / scale
LocalRadius(size, zoom, scale) ==
  RoundDiv(RoundDiv((size * UNIT) * UNIT, 2 * zoom) * UNIT, scale)

\* The left edge of the box not clamped to the raster
BoxMinXFree(c) == Floor(c.mouseX - c.localRadius)

\* The brush bounding box clamped to the raster
BoxMinX(c) == Max(0, Floor(c.mouseX - c.localRadius))
BoxMinY(c) == Max(0, Floor(c.mouseY - c.localRadius))
BoxMaxX(c, w) == Min(w, Ceil(c.mouseX + c.localRadius))
BoxMaxY(c, h) == Min(h, Ceil(c.mouseY + c.localRadius))

\* distSq of a pixel, in 1/UNIT^2
DistSq(c, globalX, globalY) ==
  LET offsetX == globalX * UNIT - c.mouseX
      offsetY == globalY * UNIT - c.mouseY
  IN offsetX * offsetX + offsetY * offsetY

\* The diameter taken for the radius
RadiusSqDiameter(c) == 4 * c.localRadius * c.localRadius

RadiusSq(c) == c.localRadius * c.localRadius

\* A falloff that grows with the distance: dist / localRadius for the factor
PowerRising(c, distSq) ==
  LET dist == Sqrt(distSq)
      factor == RoundDiv(dist * FINE, c.localRadius)
      smoothFactor == RoundDiv(factor * factor * (3 * FINE - 2 * factor), FINE * FINE)
  IN smoothFactor * c.strength

\* power = smoothFactor * strength, in 1/(FINE*UNIT)
Power(c, distSq) ==
  LET dist == Sqrt(distSq)
      factor == RoundDiv((c.localRadius - dist) * FINE, c.localRadius)
      smoothFactor == RoundDiv(factor * factor * (3 * FINE - 2 * factor), FINE * FINE)
  IN smoothFactor * c.strength

\* Math.sin and Math.cos of a small angle a (in 1/FINE rad, at most 0.1 rad),
\* by their Taylor polynomials
Sin(a) == a - RoundDiv(a * a * a, 6 * FINE * FINE)
Cos(a) == FINE - RoundDiv(a * a, 2 * FINE)

\* A forward warp: the lookup point moved along the stroke instead of against it
SourceLookupForward(c, globalX, globalY) ==
  LET offsetX == globalX * UNIT - c.mouseX
      offsetY == globalY * UNIT - c.mouseY
      dx == c.mouseX - c.prevX
      dy == c.mouseY - c.prevY
      power == Power(c, offsetX * offsetX + offsetY * offsetY)
  IN <<globalX * UNIT + RoundDiv(dx * power, FINE * UNIT),
       globalY * UNIT + RoundDiv(dy * power, FINE * UNIT)>>

\* <<sourceLookupX, sourceLookupY>> of a pixel inside the brush
\* A lookup with the signs of BLOAT and PUCKER exchanged
SourceLookupExchanged(c, globalX, globalY) ==
  LET offsetX == globalX * UNIT - c.mouseX
      offsetY == globalY * UNIT - c.mouseY
      dx == c.mouseX - c.prevX
      dy == c.mouseY - c.prevY
      power == Power(c, offsetX * offsetX + offsetY * offsetY)
  IN CASE c.tool = "WARP" ->
            <<globalX * UNIT - RoundDiv(dx * power, FINE * UNIT),
              globalY * UNIT - RoundDiv(dy * power, FINE * UNIT)>>
       [] c.tool = "PUCKER" ->
            <<globalX * UNIT - RoundDiv(offsetX * power, 10 * FINE * UNIT),
              globalY * UNIT - RoundDiv(offsetY * power, 10 * FINE * UNIT)>>
       [] c.tool = "BLOAT" ->
            <<globalX * UNIT + RoundDiv(offsetX * power, 10 * FINE * UNIT),
              globalY * UNIT + RoundDiv(offsetY * power, 10 * FINE * UNIT)>>
       [] c.tool = "TWIRL_CW" ->
            LET angle == RoundDiv(power, 10 * UNIT)
                sin == Sin(angle)
                cos == Cos(angle)
                rotX == RoundDiv(offsetX * cos - offsetY * sin, FINE)
                rotY == RoundDiv(offsetX * sin + offsetY * cos, FINE)
            IN <<c.mouseX + rotX, c.mouseY + rotY>>
       [] OTHER -> <<globalX * UNIT, globalY * UNIT>>

SourceLookup(c, globalX, globalY) ==
  LET offsetX == globalX * UNIT - c.mouseX
      offsetY == globalY * UNIT - c.mouseY
      dx == c.mouseX - c.prevX
      dy == c.mouseY - c.prevY
      power == Power(c, offsetX * offsetX + offsetY * offsetY)
  IN CASE c.tool = "WARP" ->
            <<globalX * UNIT - RoundDiv(dx * power, FINE * UNIT),
              globalY * UNIT - RoundDiv(dy * power, FINE * UNIT)>>
       [] c.tool = "BLOAT" ->
            <<globalX * UNIT - RoundDiv(offsetX * power, 10 * FINE * UNIT),
              globalY * UNIT - RoundDiv(offsetY * power, 10 * FINE * UNIT)>>
       [] c.tool = "PUCKER" ->
            <<globalX * UNIT + RoundDiv(offsetX * power, 10 * FINE * UNIT),
              globalY * UNIT + RoundDiv(offsetY * power, 10 * FINE * UNIT)>>
       [] c.tool = "TWIRL_CW" ->
            LET angle == RoundDiv(power, 10 * UNIT)
                sin == Sin(angle)
                cos == Cos(angle)
                rotX == RoundDiv(offsetX * cos - offsetY * sin, FINE)
                rotY == RoundDiv(offsetX * sin + offsetY * cos, FINE)
            IN <<c.mouseX + rotX, c.mouseY + rotY>>
       [] OTHER -> <<globalX * UNIT, globalY * UNIT>>

\* sample(arr, u, v): bilinear sample of a map array with clamped neighbours
sample(arr, w, h, u, v) ==
  LET x0 == Floor(u)
      y0 == Floor(v)
      sx0 == ClampIndex(w, x0)
      sx1 == ClampIndex(w, x0 + 1)
      sy0 == ClampIndex(h, y0)
      sy1 == ClampIndex(h, y0 + 1)
      mu == u - x0 * UNIT
      mv == v - y0 * UNIT
  IN RoundDiv(At(arr, sy0 * w + sx0) * (UNIT - mu) * (UNIT - mv)
              + At(arr, sy0 * w + sx1) * mu * (UNIT - mv)
              + At(arr, sy1 * w + sx0) * (UNIT - mu) * mv
              + At(arr, sy1 * w + sx1) * mu * mv,
              UNIT * UNIT)

\* The lookup point stored as it is, the map not sampled
TempEntryLookup(mapX, mapY, w, h, c, globalX, globalY) ==
  IF DistSq(c, globalX, globalY) < RadiusSq(c)
  THEN SourceLookup(c, globalX, globalY)
  ELSE <<At(mapX, globalY * w + globalX), At(mapY, globalY * w + globalX)>>

\* <<tempMapX[..], tempMapY[..]>> of one pixel of the box (first loop's body)
TempEntry(mapX, mapY, w, h, c, globalX, globalY) ==
  IF DistSq(c, globalX, globalY) < RadiusSq(c)
  THEN LET look == SourceLookup(c, globalX, globalY)
       IN <<sample(mapX, w, h, look[1], look[2]), sample(mapY, w, h, look[1], look[2])>>
  ELSE <<At(mapX, globalY * w + globalX), At(mapY, globalY * w + globalX)>>

InBox(c, w, h, globalX, globalY) ==
  /\ BoxMinX(c) <= globalX /\ globalX < BoxMaxX(c, w)
  /\ BoxMinY(c) <= globalY /\ globalY < BoxMaxY(c, h)

\* One loop writing into the map it samples, pixel i onwards
RECURSIVE DistortInPlaceFrom(_, _, _, _, _, _)
DistortInPlaceFrom(mapX, mapY, w, h, c, i) ==
  IF i > w * h THEN <<mapX, mapY>>
  ELSE LET e == IF InBox(c, w, h, (i - 1) % w, (i - 1) \div w)
                THEN TempEntry(mapX, mapY, w, h, c, (i - 1) % w, (i - 1) \div w)
                ELSE <<mapX[i], mapY[i]>>
       IN DistortInPlaceFrom([mapX EXCEPT ![i] = e[1]], [mapY EXCEPT ![i] = e[2]],
                             w, h, c, i + 1)

DistortRegionInPlace(mapX, mapY, w, h, c) == DistortInPlaceFrom(mapX, mapY, w, h, c, 1)

\* The two loops: tempMap is filled from the map as it was, then copied back
DistortRegion(mapX, mapY, w, h, c) ==
  <<[i \in 1..(w * h) |->
       IF InBox(c, w, h, (i - 1) % w, (i - 1) \div w)
       THEN TempEntry(mapX, mapY, w, h, c, (i - 1) % w, (i - 1) \div w)[1]
       ELSE mapX[i]],
    [i \in 1..(w * h) |->
       IF InBox(c, w, h, (i - 1) % w, (i - 1) \div w)
       THEN TempEntry(mapX, mapY, w, h, c, (i - 1) % w, (i - 1) \div w)[2]
       ELSE mapY[i]]>>

\* applyDistortion: the engine after the call
applyDistortion(eng, c) ==
  IF eng.mapX = <<>> \/ eng.mapY = <<>> \/ eng.original = NullImage THEN eng
  ELSE LET w == eng.original.width
           h == eng.original.height
           regionW == BoxMaxX(c, w) - BoxMinX(c)
           regionH == BoxMaxY(c, h) - BoxMinY(c)
       IN IF regionW <= 0 \/ regionH <= 0 THEN eng
          ELSE LET m == DistortRegion(eng.mapX, eng.mapY, w, h, c)
               IN [eng EXCEPT !.mapX = m[1], !.mapY = m[2]]

----------------------------------------------------------------------------
(* App: layers and history *)

\* The layer addImageLayer builds
NewLayer(id, name, imageData) ==
  [id |-> id, name |-> name, visible |-> TRUE, imageData |-> imageData,
   blendMode |-> "source-over", opacity |-> UNIT,
   x |-> 0, y |-> 0, scale |-> UNIT, rotation |-> 0]

HistoryStep(ls, id) == [layers |-> ls, activeLayerId |-> id]

SeqRange(s) == {s[i] : i \in 1..Len(s)}

LayerIds(ls) == {ls[i].id : i \in 1..Len(ls)}

\* layers.find(l => l.id === id); callers test membership first
FindLayer(ls, id) == ls[CHOOSE i \in 1..Len(ls) : ls[i].id = id]

\* layers.findIndex(l => l.id === id), -1 when absent
FindIndex(ls, id) ==
  IF id \in LayerIds(ls) THEN (CHOOSE i \in 1..Len(ls) : ls[i].id = id) - 1 ELSE -1

\* The pixel buffers a layer stack holds, by name
RefsOf(ls) == {ls[i].imageData.ref : i \in 1..Len(ls)} \ {0}

\* Every pixel buffer some part of the state holds
UsedRefs ==
  RefsOf(layers) \cup UNION {RefsOf(history[i].layers) : i \in 1..Len(history)}
  \cup UNION {RefsOf(pendingLoads[i].layers) : i \in 1..Len(pendingLoads)}
  \cup (IF pendingGeneration = NoGeneration THEN {} ELSE RefsOf(pendingGeneration.layers))
  \cup ({activeOriginalDataRef.ref} \ {0})

\* Every layer id some part of the state holds
UsedIds ==
  LayerIds(layers) \cup UNION {LayerIds(history[i].layers) : i \in 1..Len(history)}
  \cup {history[i].activeLayerId : i \in 1..Len(history)}
  \cup UNION {LayerIds(pendingLoads[i].layers) : i \in 1..Len(pendingLoads)}
  \cup (IF pendingGeneration = NoGeneration THEN {} ELSE LayerIds(pendingGeneration.layers))
  \cup {activeLayerId, loadedLayerIdRef}

\* The k-th smallest name not in used: the buffer a `new` creates is none of
\* the buffers that exist
FreshRef(used, k) ==
  LET free == (1..(Cardinality(used) + k)) \ used
  IN CHOOSE r \in free : Cardinality({q \in free : q < r}) = k - 1

\* Date.now().toString(): an id no layer has had
FreshId == FreshRef(UsedIds \ {NoId}, 1)

\* A shallow clone: the layer objects are copied, the pixel buffers shared
cloneLayersShallow(layersToClone, used) == layersToClone

\* cloneLayers: every layer copied, its pixel buffer copied into a new one
cloneLayers(layersToClone, used) ==
  [i \in 1..Len(layersToClone) |->
     IF layersToClone[i].imageData = NullImage THEN layersToClone[i]
     ELSE [layersToClone[i] EXCEPT
             !.imageData = ImageData(FreshRef(used, i), @.data, @.width, @.height)]]

\* prev.slice(0, end)
Slice(prev, end) == SubSeq(prev, 1, Min(Max(end, 0), Len(prev)))

\* commitToHistory's setHistory updater; closureIndex is the historyIndex the
\* callback closed over
\* A commit that appends its snapshot twice
CommitHistoryTwice(prev, closureIndex, newLayers, newActiveId, used) ==
  LET currentHist == Slice(prev, closureIndex + 1)
      snapshot == HistoryStep(cloneLayers(newLayers, used), newActiveId)
      newHist == Append(Append(currentHist, snapshot), snapshot)
  IN IF Len(newHist) > HISTORY_MAX_STEPS THEN Tail(newHist) ELSE newHist

CommitHistory(prev, closureIndex, newLayers, newActiveId, used) ==
  LET currentHist == Slice(prev, closureIndex + 1)
      snapshot == HistoryStep(cloneLayers(newLayers, used), newActiveId)
      newHist == Append(currentHist, snapshot)
  IN IF Len(newHist) > HISTORY_MAX_STEPS THEN Tail(newHist) ELSE newHist

\* commitToHistory's setHistoryIndex updater
CommitIndex(prev) ==
  LET next == prev + 1
  IN IF next >= HISTORY_MAX_STEPS THEN HISTORY_MAX_STEPS - 1 ELSE next

----------------------------------------------------------------------------
(* LiquifyCanvas: the effect on [activeLayerId, layers] *)

\* An effect that looks at the layer id alone and keeps the old map and raster
\* when the active layer's image data was replaced
EngineEffectByIdOnly(eng, ls, activeId) ==
  IF activeId \in LayerIds(ls) /\ FindLayer(ls, activeId).imageData # NullImage
  THEN IF eng.loadedLayerId # activeId
       THEN initEngine(eng, FindLayer(ls, activeId))
       ELSE eng
  ELSE NullEngine

EngineEffect(eng, ls, activeId) ==
  IF activeId \in LayerIds(ls) /\ FindLayer(ls, activeId).imageData # NullImage
  THEN LET activeLayer == FindLayer(ls, activeId)
       IN IF eng.loadedLayerId # activeId \/ eng.original.ref # activeLayer.imageData.ref
          THEN initEngine(eng, activeLayer)
          ELSE eng
  ELSE NullEngine

CurrentEngine == Engine(mapXRef, mapYRef, activeOriginalDataRef, loadedLayerIdRef)

IsIdentityMap(eng) ==
  /\ eng.original # NullImage
  /\ eng.mapX = IdentityMapX(eng.original.width, eng.original.height)
  /\ eng.mapY = IdentityMapY(eng.original.width, eng.original.height)

SetEngineNow(eng) ==
  /\ mapXRef = eng.mapX
  /\ mapYRef = eng.mapY
  /\ activeOriginalDataRef = eng.original
  /\ loadedLayerIdRef = eng.loadedLayerId

SetEngine(eng) ==
  /\ mapXRef' = eng.mapX
  /\ mapYRef' = eng.mapY
  /\ activeOriginalDataRef' = eng.original
  /\ loadedLayerIdRef' = eng.loadedLayerId

\* The log of applyDistortion calls restarts when the map is identity again
CallsAfter(eng, calls) == IF eng.mapX = <<>> \/ IsIdentityMap(eng) THEN <<>> ELSE calls

\* What a handler leaves after React has rendered: setLayers, setActiveLayerId,
\* then the engine effect
Render(newLayers, newActiveId, eng) ==
  /\ layers' = newLayers
  /\ activeLayerId' = newActiveId
  /\ SetEngine(EngineEffect(eng, newLayers, newActiveId))

\* The log after a commitToHistory(newLayers, newActiveId) call; gap tells
\* how many handlers ran between the call before and this one
Committed(newLayers, newActiveId) ==
  /\ lastCommits' = LET all == Append(lastCommits, [layers |-> newLayers,
                                                    activeLayerId |-> newActiveId,
                                                    gap |-> sinceCommit])
                    IN SubSeq(all, Max(1, Len(all) - 1), Len(all))
  /\ sinceCommit' = 0

\* The log after a handler that did not call commitToHistory
NoCommit ==
  /\ sinceCommit' = Min(sinceCommit + 1, 2)
  /\ UNCHANGED lastCommits

\* commitToHistory(newLayers, newActiveId) of the render whose historyIndex
\* was closureIndex: the updaters run on the current history and index
commitToHistoryFrom(closureIndex, newLayers, newActiveId, used) ==
  /\ history' = CommitHistory(history, closureIndex, newLayers, newActiveId, used)
  /\ historyIndex' = CommitIndex(historyIndex)
  /\ Committed(newLayers, newActiveId)

\* commitToHistory(newLayers, newActiveId) called from the current render
commitToHistory(newLayers, newActiveId, used) ==
  commitToHistoryFrom(historyIndex, newLayers, newActiveId, used)

NoUndo == <<>>

Logged(op) ==
  /\ lastOp' = op
  /\ events' = events + 1
  /\ beforeUndo' = IF /\ op = "undoAction"
                      /\ ~isDrawing
                      /\ historyIndex > 0
                      /\ historyIndex = Len(history) - 1
                   THEN [layers |-> layers, activeLayerId |-> activeLayerId]
                   ELSE NoUndo

----------------------------------------------------------------------------
(* Inputs *)

\* A decoded image: width, height and RGBA bytes
Pixels(w, h, seed) ==
  [k \in 1..(w * h * 4) |-> IF (k - 1) % 4 = 3 THEN 255 ELSE (seed + 16 * (k - 1)) % 256]

SourceImage(w, h, seed) == [width |-> w, height |-> h, data |-> Pixels(w, h, seed)]

UploadImage == SourceImage(2, 2, 10)
\* The files the user picks: two images of different sizes
UploadImages == {UploadImage, SourceImage(1, 1, 40)}

\* The updates the Layer Options panel sends: <<field, value>>
LayerUpdates == {<<"opacity", UNIT \div 2>>}

----------------------------------------------------------------------------
(* App: handlers *)

CanvasIdle == UNCHANGED <<toolVars, gestureVars>>

\* What every App handler that sets layers leaves in the canvas component
Rendered(newLayers, newActiveId) ==
  /\ Render(newLayers, newActiveId, CurrentEngine)
  /\ distortCalls' = CallsAfter(EngineEffect(CurrentEngine, newLayers, newActiveId), distortCalls)
  /\ CanvasIdle

\* aList.filter((_, i) => i !== k - 1)
RemoveAt(aList, k) == SubSeq(aList, 1, k - 1) \o SubSeq(aList, k + 1, Len(aList))

\* addImageLayer(src, name) up to img.src = src: the load is under way, and its
\* onload closes over the layers and the commitToHistory of this render
addImageLayer(img, name) ==
  /\ events < MaxEvents
  /\ Len(pendingLoads) < MaxPending
  /\ Len(layers) < MaxLayers
  /\ pendingLoads' = Append(pendingLoads, [img |-> img, name |-> name, layers |-> layers,
                                           historyIndex |-> historyIndex])
  /\ UNCHANGED <<pendingGeneration, alerts>>
  /\ UNCHANGED <<appVars, toolVars, gestureVars, engineVars, logVars>>

\* addImageLayer's downscale: Math.round(width / ratio) with ratio = width / height
\* of the source is MAX_IMAGE_DIMENSION * height / width rounded, and
\* Math.round(height * ratio) is MAX_IMAGE_DIMENSION * width / height rounded
DownscaledSize(width, height) ==
  IF width > MAX_IMAGE_DIMENSION \/ height > MAX_IMAGE_DIMENSION
  THEN IF width > height
       THEN <<MAX_IMAGE_DIMENSION, RoundDiv(MAX_IMAGE_DIMENSION * height, width)>>
       ELSE <<RoundDiv(MAX_IMAGE_DIMENSION * width, height), MAX_IMAGE_DIMENSION>>
  ELSE <<width, height>>

\* ctx.drawImage(img, 0, 0, width, height) followed by getImageData: the image
\* itself at its own size, and resampled (here: the nearest source pixel) otherwise
drawImage(img, width, height) ==
  IF width = img.width /\ height = img.height THEN img.data
  ELSE [k \in 1..(width * height * 4) |->
          LET x == ((k - 1) \div 4) % width
              y == ((k - 1) \div 4) \div width
              sx == (x * img.width) \div width
              sy == (y * img.height) \div height
          IN img.data[(sy * img.width + sx) * 4 + ((k - 1) % 4) + 1]]

\* addImageLayer's img.onload for the k-th pending load
\* A canvas with a side of 0 makes getImageData throw (IndexSizeError): the
\* handler ends there and no layer is added
imgOnload(k) ==
  /\ events < MaxEvents
  /\ LET load == pendingLoads[k]
         size == DownscaledSize(load.img.width, load.img.height)
     IN IF size[1] = 0 \/ size[2] = 0
        THEN /\ UNCHANGED <<appVars, toolVars, gestureVars, engineVars, distortCalls>>
             /\ lastOp' = "imgOnloadThrew"
             /\ NoCommit
        ELSE LET imageData == ImageData(FreshRef(UsedRefs, 1), drawImage(load.img, size[1], size[2]),
                                       size[1], size[2])
                 newLayer == NewLayer(FreshId, <<load.name, Len(load.layers) + 1>>, imageData)
                 newLayers == Append(load.layers, newLayer)
             IN /\ Rendered(newLayers, newLayer.id)
                /\ commitToHistoryFrom(load.historyIndex, newLayers, newLayer.id,
                                       UsedRefs \cup {imageData.ref})
                /\ lastOp' = "addImageLayer"
  /\ pendingLoads' = RemoveAt(pendingLoads, k)
  /\ UNCHANGED <<pendingGeneration, alerts>>
  /\ events' = events + 1
  /\ beforeUndo' = NoUndo

\* img.onerror is not set: an image that fails to decode runs no handler of the
\* app, and its pending load is gone
imgOnerror(k) ==
  /\ events < MaxEvents
  /\ pendingLoads' = RemoveAt(pendingLoads, k)
  /\ UNCHANGED <<pendingGeneration, alerts>>
  /\ UNCHANGED <<appVars, toolVars, gestureVars, engineVars, distortCalls>>
  /\ Logged("imgOnerror")
  /\ NoCommit

\* handleFileUpload whose FileReader fails: reader.onerror is not set, reader.onload
\* never runs and addImageLayer is not called
readerOnerror ==
  /\ events < MaxEvents
  /\ UNCHANGED <<appVars, loadVars, toolVars, gestureVars, engineVars, distortCalls>>
  /\ Logged("readerOnerror")
  /\ NoCommit

\* handleGenerate up to its await; the button is disabled while isGenerating
handleGenerate ==
  /\ events < MaxEvents
  /\ pendingGeneration = NoGeneration
  /\ pendingGeneration' = [layers |-> layers, historyIndex |-> historyIndex]
  /\ UNCHANGED <<pendingLoads, alerts>>
  /\ UNCHANGED <<appVars, toolVars, gestureVars, engineVars, distortCalls>>
  /\ Logged("handleGenerate")
  /\ NoCommit

\* generateSampleImage resolves: addImageLayer(result.imageUrl, 'GenAI') of the
\* render that handleGenerate closed over, then finally
generateResolved(img) ==
  /\ pendingGeneration # NoGeneration
  /\ Len(pendingLoads) < MaxPending
  /\ Len(layers) < MaxLayers
  /\ pendingLoads' = Append(pendingLoads, [img |-> img, name |-> "GenAI",
                                           layers |-> pendingGeneration.layers,
                                           historyIndex |-> pendingGeneration.historyIndex])
  /\ pendingGeneration' = NoGeneration
  /\ UNCHANGED alerts
  /\ UNCHANGED <<appVars, toolVars, gestureVars, engineVars, distortCalls>>
  /\ Logged("generateResolved")
  /\ NoCommit

\* generateSampleImage throws (no API key, no image data): catch, then finally
generateRejectedStillGenerating ==
  /\ pendingGeneration # NoGeneration
  /\ alerts' = alerts + 1
  /\ UNCHANGED <<pendingLoads, pendingGeneration>>
  /\ UNCHANGED <<appVars, toolVars, gestureVars, engineVars, distortCalls>>
  /\ Logged("generateRejected")
  /\ NoCommit

generateRejected ==
  /\ pendingGeneration # NoGeneration
  /\ alerts' = alerts + 1
  /\ pendingGeneration' = NoGeneration
  /\ UNCHANGED pendingLoads
  /\ UNCHANGED <<appVars, toolVars, gestureVars, engineVars, distortCalls>>
  /\ Logged("generateRejected")
  /\ NoCommit

toggleLayerVisibility(id) ==
  /\ events < MaxEvents
  /\ LET newLayers == [i \in 1..Len(layers) |->
                         IF layers[i].id = id
                         THEN [layers[i] EXCEPT !.visible = ~layers[i].visible]
                         ELSE layers[i]]
     IN /\ Rendered(newLayers, activeLayerId)
        /\ commitToHistory(newLayers, activeLayerId, UsedRefs)
  /\ Logged("toggleLayerVisibility")
  /\ UNCHANGED loadVars

\* layers.filter(l => l.id !== id)
RECURSIVE FilterOut(_, _)
FilterOut(ls, id) ==
  IF ls = <<>> THEN <<>>
  ELSE IF Head(ls).id = id THEN FilterOut(Tail(ls), id)
  ELSE <<Head(ls)>> \o FilterOut(Tail(ls), id)

\* A delete that picks no new active layer when the active one goes
DeleteActiveIdKept(ls, activeId, id) ==
  IF Len(FilterOut(ls, id)) = 0 THEN NoId ELSE activeId

DeleteActiveIdBottom(ls, activeId, id) ==
  LET newLayers == FilterOut(ls, id)
  IN IF activeId = id /\ Len(newLayers) > 0 THEN newLayers[1].id
     ELSE IF Len(newLayers) = 0 THEN NoId
     ELSE activeId

DeleteActiveId(ls, activeId, id) ==
  LET newLayers == FilterOut(ls, id)
  IN IF activeId = id /\ Len(newLayers) > 0 THEN newLayers[Len(newLayers)].id
     ELSE IF Len(newLayers) = 0 THEN NoId
     ELSE activeId

deleteLayer(id) ==
  /\ events < MaxEvents
  /\ LET newLayers == FilterOut(layers, id)
         newActiveId == DeleteActiveId(layers, activeLayerId, id)
     IN /\ Rendered(newLayers, newActiveId)
        /\ commitToHistory(newLayers, newActiveId, UsedRefs)
  /\ Logged("deleteLayer")
  /\ UNCHANGED loadVars

MovedLayersReversed(ls, id, dir) ==
  LET idx == FindIndex(ls, id)
      swapIdx == IF dir = "up" THEN idx - 1 ELSE idx + 1
  IN IF idx = -1 \/ ~(swapIdx >= 0 /\ swapIdx < Len(ls)) THEN ls
     ELSE [i \in 1..Len(ls) |->
             IF i = idx + 1 THEN ls[swapIdx + 1]
             ELSE IF i = swapIdx + 1 THEN ls[idx + 1]
             ELSE ls[i]]

MovedLayers(ls, id, dir) ==
  LET idx == FindIndex(ls, id)
      swapIdx == IF dir = "up" THEN idx + 1 ELSE idx - 1
  IN IF idx = -1 \/ ~(swapIdx >= 0 /\ swapIdx < Len(ls)) THEN ls
     ELSE [i \in 1..Len(ls) |->
             IF i = idx + 1 THEN ls[swapIdx + 1]
             ELSE IF i = swapIdx + 1 THEN ls[idx + 1]
             ELSE ls[i]]

MoveApplies(ls, id, dir) ==
  LET idx == FindIndex(ls, id)
      swapIdx == IF dir = "up" THEN idx + 1 ELSE idx - 1
  IN idx # -1 /\ swapIdx >= 0 /\ swapIdx < Len(ls)

moveLayer(id, dir) ==
  IF MoveApplies(layers, id, dir)
  THEN /\ events < MaxEvents
       /\ Rendered(MovedLayers(layers, id, dir), activeLayerId)
       /\ commitToHistory(MovedLayers(layers, id, dir), activeLayerId, UsedRefs)
       /\ Logged("moveLayer")
       /\ UNCHANGED loadVars
  ELSE UNCHANGED vars

duplicateActiveLayer ==
  IF activeLayerId \in LayerIds(layers)
  THEN
     /\ FindLayer(layers, activeLayerId).imageData # NullImage
     /\ events < MaxEvents
     /\ Len(layers) < MaxLayers
     /\ LET active == FindLayer(layers, activeLayerId)
            imageData == ImageData(FreshRef(UsedRefs, 1), active.imageData.data,
                                   active.imageData.width, active.imageData.height)
            newLayer == [active EXCEPT !.id = FreshId,
                                       !.name = Append(active.name, "Copy"),
                                       !.imageData = imageData]
            newLayers == Append(layers, newLayer)
        IN /\ Rendered(newLayers, newLayer.id)
           /\ commitToHistory(newLayers, newLayer.id, UsedRefs \cup {imageData.ref})
     /\ Logged("duplicateActiveLayer")
     /\ UNCHANGED loadVars
  ELSE UNCHANGED vars

\* updateLayerProperty(id, { opacity }) and updateLayerProperty(id, { blendMode })
updateLayerProperty(id, field, value) ==
  /\ events < MaxEvents
  /\ LET newLayers == [i \in 1..Len(layers) |->
                         IF layers[i].id = id
                         THEN IF field = "opacity" THEN [layers[i] EXCEPT !.opacity = value]
                              ELSE [layers[i] EXCEPT !.blendMode = value]
                         ELSE layers[i]]
     IN /\ Rendered(newLayers, activeLayerId)
        /\ commitToHistory(newLayers, activeLayerId, UsedRefs)
  /\ Logged("updateLayerProperty")
  /\ UNCHANGED loadVars

\* ToolsPanel layer row onClick: setActiveLayerId(id), no history
setActiveLayerIdCommitting(id) ==
  /\ events < MaxEvents
  /\ id # activeLayerId
  /\ Rendered(layers, id)
  /\ commitToHistory(layers, id, UsedRefs)
  /\ Logged("setActiveLayerId")
  /\ UNCHANGED loadVars

setActiveLayerId(id) ==
  /\ events < MaxEvents
  /\ id # activeLayerId
  /\ Rendered(layers, id)
  /\ UNCHANGED <<history, historyIndex>>
  /\ Logged("setActiveLayerId")
  /\ NoCommit
  /\ UNCHANGED loadVars

\* undoAction's test, and history[prevIndex] being there: when prevIndex is
\* past the end the read of step.layers throws and no state is set
CanUndo == historyIndex > 0 /\ historyIndex - 1 < Len(history)

\* redoAction's test
CanRedo == historyIndex < Len(history) - 1

undoActionTruncating ==
  IF CanUndo
  THEN
     /\ events < MaxEvents
     /\ LET prevIndex == historyIndex - 1
            step == At(history, prevIndex)
        IN /\ Rendered(cloneLayers(step.layers, UsedRefs), step.activeLayerId)
           /\ historyIndex' = prevIndex
           /\ history' = Slice(history, prevIndex + 1)
     /\ Logged("undoAction")
     /\ NoCommit
     /\ UNCHANGED loadVars
  ELSE UNCHANGED vars

undoAction ==
  IF CanUndo
  THEN
     /\ events < MaxEvents
     /\ LET prevIndex == historyIndex - 1
            step == At(history, prevIndex)
        IN /\ Rendered(cloneLayers(step.layers, UsedRefs), step.activeLayerId)
           /\ historyIndex' = prevIndex
     /\ UNCHANGED history
     /\ Logged("undoAction")
     /\ NoCommit
     /\ UNCHANGED loadVars
  ELSE UNCHANGED vars

redoAction ==
  IF CanRedo
  THEN
     /\ events < MaxEvents
     /\ LET nextIndex == historyIndex + 1
            step == At(history, nextIndex)
        IN /\ Rendered(cloneLayers(step.layers, UsedRefs), step.activeLayerId)
           /\ historyIndex' = nextIndex
     /\ UNCHANGED history
     /\ Logged("redoAction")
     /\ NoCommit
     /\ UNCHANGED loadVars
  ELSE UNCHANGED vars

----------------------------------------------------------------------------
(* LiquifyCanvas: helper math *)

\* Math.cos and Math.sin of a rotation; rotations are counted in quarter turns
CosQ(q) == CASE q % 4 = 0 -> 1 [] q % 4 = 2 -> -1 [] OTHER -> 0
SinQ(q) == CASE q % 4 = 1 -> 1 [] q % 4 = 3 -> -1 [] OTHER -> 0

rotatePoint(p, origin, angle) ==
  LET cos == CosQ(angle)
      sin == SinQ(angle)
      dx == p[1] - origin[1]
      dy == p[2] - origin[2]
  IN <<origin[1] + (dx * cos - dy * sin), origin[2] + (dx * sin + dy * cos)>>

worldToLocal(p, layer, width, height) ==
  LET cx == layer.x
      cy == layer.y
      unrotated == rotatePoint(p, <<cx, cy>>, 0 - layer.rotation)
      unscaledX == RoundDiv((unrotated[1] - cx) * UNIT, layer.scale)
      unscaledY == RoundDiv((unrotated[2] - cy) * UNIT, layer.scale)
  IN <<unscaledX + (width * UNIT) \div 2, unscaledY + (height * UNIT) \div 2>>

\* Math.atan2(dy, dx) in quarter turns; the pointer positions of the model lie on
\* the axes through the layer's centre, where the value is exact
Atan2Q(dy, dx) ==
  IF dx = 0 /\ dy = 0 THEN 0
  ELSE IF Abs(dx) >= Abs(dy)
       THEN IF dx >= 0 THEN 0 ELSE IF dy >= 0 THEN 2 ELSE 0 - 2
       ELSE IF dy > 0 THEN 1 ELSE 0 - 1

\* A layer of scale 0 gives non-finite local coordinates and an infinite handle
\* radius: every comparison of the hit test is false and the result is NONE
hitTestTransform(worldPos, layer, w, h) ==
  IF layer.scale = 0 THEN "NONE"
  ELSE
    LET local == worldToLocal(worldPos, layer, w, h)
        halfW == (w * UNIT) \div 2
        halfH == (h * UNIT) \div 2
        lx == local[1] - halfW
        ly == local[2] - halfH
        handleRadius == RoundDiv(RoundDiv(15 * UNIT * UNIT, zoomLevel) * UNIT, layer.scale)
        rotateY == 0 - halfH - RoundDiv(30 * UNIT * UNIT, layer.scale)
        Near(cx, cy) == Abs(lx - cx) < handleRadius /\ Abs(ly - cy) < handleRadius
    IN IF Near(0, rotateY) THEN "ROTATE"
       ELSE IF Near(0 - halfW, 0 - halfH) THEN "TOP_LEFT"
       ELSE IF Near(halfW, 0 - halfH) THEN "TOP_RIGHT"
       ELSE IF Near(0 - halfW, halfH) THEN "BOTTOM_LEFT"
       ELSE IF Near(halfW, halfH) THEN "BOTTOM_RIGHT"
       ELSE IF lx > 0 - halfW /\ lx < halfW /\ ly > 0 - halfH /\ ly < halfH THEN "BODY"
       ELSE "NONE"

----------------------------------------------------------------------------
(* LiquifyCanvas: lasso mask *)

\* > 0 when q is left of the line a -> b
IsLeft(a, b, q) == (b[1] - a[1]) * (q[2] - a[2]) - (q[1] - a[1]) * (b[2] - a[2])

\* Winding number of the closed polygon poly around q (canvas fill, nonzero rule)
RECURSIVE Winding(_, _, _)
Winding(poly, q, i) ==
  IF i > Len(poly) THEN 0
  ELSE LET a == poly[i]
           b == poly[(i % Len(poly)) + 1]
           turn == IF a[2] <= q[2]
                   THEN IF b[2] > q[2] /\ IsLeft(a, b, q) > 0 THEN 1 ELSE 0
                   ELSE IF b[2] <= q[2] /\ IsLeft(a, b, q) < 0 THEN -1 ELSE 0
       IN turn + Winding(poly, q, i + 1)

SubSamples == {UNIT \div 8, (3 * UNIT) \div 8, (5 * UNIT) \div 8, (7 * UNIT) \div 8}

\* maskData[i] !== 0: the anti-aliased fill covers some of pixel (x, y)
MaskCovers(poly, x, y) ==
  \E sx \in SubSamples, sy \in SubSamples :
     Winding(poly, <<x * UNIT + sx, y * UNIT + sy>>, 1) # 0

\* Every channel cleared where the mask is 0, not the alpha alone
MaskedPixelsCleared(data, w, poly) ==
  [k \in 1..Len(data) |->
     IF ~MaskCovers(poly, ((k - 1) \div 4) % w, ((k - 1) \div 4) \div w)
     THEN 0 ELSE data[k]]

\* newPixels: workingData with alpha 0 where the mask is 0
MaskedPixels(data, w, poly) ==
  [k \in 1..Len(data) |->
     IF (k - 1) % 4 = 3 /\ ~MaskCovers(poly, ((k - 1) \div 4) % w, ((k - 1) \div 4) \div w)
     THEN 0 ELSE data[k]]

ReplaceImage(ls, id, imageData) ==
  [i \in 1..Len(ls) |-> IF ls[i].id = id THEN [ls[i] EXCEPT !.imageData = imageData] ELSE ls[i]]

----------------------------------------------------------------------------
(* LiquifyCanvas: 4. Interactions *)

WarpTools == {"WARP", "BLOAT", "PUCKER", "TWIRL_CW"}

\* onCanvasInteractionEnd(updatedLayers), then the render with engine eng
onInteractionEnd(updatedLayers, eng) ==
  /\ Render(updatedLayers, activeLayerId, eng)
  /\ distortCalls' = CallsAfter(EngineEffect(eng, updatedLayers, activeLayerId), distortCalls)
  /\ commitToHistory(updatedLayers, activeLayerId, UsedRefs \cup (RefsOf(updatedLayers)))

onStart(p) ==
  /\ events < MaxEvents
  /\ ~isDrawing
  /\ isDrawing' = TRUE
  /\ IF tool = "TRANSFORM"
     THEN /\ IF /\ activeLayerId \in LayerIds(layers)
                /\ FindLayer(layers, activeLayerId).imageData # NullImage
             THEN \E layer \in {FindLayer(layers, activeLayerId)} :
                     /\ transformHandle' = hitTestTransform(p, layer, layer.imageData.width,
                                                            layer.imageData.height)
                     /\ startTransformState' = [p |-> p, layer |-> layer]
             ELSE UNCHANGED <<transformHandle, startTransformState>>
          /\ UNCHANGED <<lastPoint, lassoPath>>
     ELSE IF tool = "LASSO"
     THEN lassoPath' = <<p>> /\ UNCHANGED <<lastPoint, transformHandle, startTransformState>>
     ELSE lastPoint' = p /\ UNCHANGED <<lassoPath, transformHandle, startTransformState>>
  /\ UNCHANGED <<appVars, toolVars, engineVars, distortCalls>>
  /\ Logged("onStart")
  /\ NoCommit
  /\ UNCHANGED loadVars

\* The applyDistortion call onMove makes for pointer position p
\* A move whose segment starts at the current point instead of the previous one
MoveCallFromCurrent(p) ==
  LET w == activeOriginalDataRef.width
      h == activeOriginalDataRef.height
      layer == FindLayer(layers, activeLayerId)
      localCurr == worldToLocal(p, layer, w, h)
  IN DistortCall(localCurr[1], localCurr[2], localCurr[1], localCurr[2],
                 LocalRadius(brushSettings.size, zoomLevel, layer.scale),
                 brushSettings.strength, tool)

MoveCall(p) ==
  LET w == activeOriginalDataRef.width
      h == activeOriginalDataRef.height
      layer == FindLayer(layers, activeLayerId)
      localCurr == worldToLocal(p, layer, w, h)
      localPrev == worldToLocal(lastPoint, layer, w, h)
  IN DistortCall(localCurr[1], localCurr[2], localPrev[1], localPrev[2],
                 LocalRadius(brushSettings.size, zoomLevel, layer.scale),
                 brushSettings.strength, tool)

\* Math.max(startDist, 0.01): the floor 0.01 in 1/UNIT steps, rounded up
MinStartDist == 3

\* The updates a TRANSFORM drag to p hands to the preview sink
TransformUpdates(p) ==
  LET startP == startTransformState.p
      startLayer == startTransformState.layer
      dx == p[1] - startP[1]
      dy == p[2] - startP[2]
      cx == startLayer.x
      cy == startLayer.y
      startDist == Sqrt((startP[1] - cx) * (startP[1] - cx) + (startP[2] - cy) * (startP[2] - cy))
      currentDist == Sqrt((p[1] - cx) * (p[1] - cx) + (p[2] - cy) * (p[2] - cy))
      scaleFactor == RoundDiv(currentDist * UNIT, Max(startDist, MinStartDist))
  IN IF transformHandle = "BODY"
     THEN [x |-> startLayer.x + dx, y |-> startLayer.y + dy]
     ELSE IF transformHandle = "ROTATE"
     THEN [rotation |-> Atan2Q(p[2] - cy, p[1] - cx) + 1]
     ELSE [scale |-> RoundDiv(startLayer.scale * scaleFactor, UNIT)]

\* {...l, ...updates}
MergeLayer(l, updates) ==
  [f \in DOMAIN l |-> IF f \in DOMAIN updates THEN updates[f] ELSE l[f]]

\* A preview sink that replaces the layer by the updates instead of merging them:
\* the layer loses its pixel data
updateLayerStateOnlyReplacing(id, updates) ==
  \E newLayers \in {[i \in 1..Len(layers) |->
                        IF layers[i].id = id
                        THEN [MergeLayer(layers[i], updates) EXCEPT !.imageData = NullImage]
                        ELSE layers[i]]} :
     /\ Render(newLayers, activeLayerId, CurrentEngine)
     /\ distortCalls' = CallsAfter(EngineEffect(CurrentEngine, newLayers, activeLayerId),
                                   distortCalls)
     /\ UNCHANGED <<history, historyIndex>>

\* A preview sink that records every move of the drag as a snapshot
updateLayerStateOnlyCommitting(id, updates) ==
  \E newLayers \in {[i \in 1..Len(layers) |->
                        IF layers[i].id = id THEN MergeLayer(layers[i], updates)
                        ELSE layers[i]]} :
     /\ Render(newLayers, activeLayerId, CurrentEngine)
     /\ distortCalls' = CallsAfter(EngineEffect(CurrentEngine, newLayers, activeLayerId),
                                   distortCalls)
     /\ history' = CommitHistory(history, historyIndex, newLayers, activeLayerId, UsedRefs)
     /\ historyIndex' = CommitIndex(historyIndex)

\* setLayers(prev => prev.map(l => l.id === id ? {...l, ...updates} : l))
updateLayerStateOnly(id, updates) ==
  \E newLayers \in {[i \in 1..Len(layers) |->
                        IF layers[i].id = id THEN MergeLayer(layers[i], updates)
                        ELSE layers[i]]} :
     /\ Render(newLayers, activeLayerId, CurrentEngine)
     /\ distortCalls' = CallsAfter(EngineEffect(CurrentEngine, newLayers, activeLayerId),
                                   distortCalls)
     /\ UNCHANGED <<history, historyIndex>>

\* In the warp branch a layer of scale 0 gives non-finite local coordinates and
\* region bounds, for which applyDistortion's loops run no iteration
onMove(p) ==
  \/ /\ ~isDrawing
     /\ UNCHANGED vars
  \/ /\ isDrawing
     /\ events < MaxEvents
     /\ IF tool = "TRANSFORM"
        THEN /\ IF startTransformState # NoTransform /\ transformHandle # "NONE"
                THEN updateLayerStateOnly(activeLayerId, TransformUpdates(p))
                ELSE UNCHANGED <<appVars, engineVars, distortCalls>>
             /\ UNCHANGED gestureVars
        ELSE IF tool = "LASSO"
        THEN /\ lassoPath' = Append(lassoPath, p)
             /\ UNCHANGED <<isDrawing, lastPoint, transformHandle, startTransformState>>
             /\ UNCHANGED <<appVars, engineVars, distortCalls>>
        ELSE /\ IF lastPoint # NoPoint /\ activeOriginalDataRef # NullImage
                THEN /\ IF /\ activeLayerId \in LayerIds(layers)
                           /\ FindLayer(layers, activeLayerId).scale # 0
                        THEN \E eng \in {applyDistortion(CurrentEngine, MoveCall(p))} :
                                /\ SetEngine(eng)
                                /\ distortCalls' = CallsAfter(eng, Append(distortCalls, MoveCall(p)))
                        ELSE UNCHANGED <<engineVars, distortCalls>>
                     /\ lastPoint' = p
                ELSE UNCHANGED <<engineVars, distortCalls, lastPoint>>
             /\ UNCHANGED <<isDrawing, lassoPath, transformHandle, startTransformState>>
             /\ UNCHANGED appVars
     /\ UNCHANGED toolVars
     /\ Logged("onMove")
     /\ NoCommit
     /\ UNCHANGED loadVars

\* A commit that hands the layers to the app whether a raster was baked or not
CommitWarpUnguarded ==
  \E bakedData \in {bakeCurrentWarp(CurrentEngine, FreshRef(UsedRefs, 1))} :
     IF activeLayerId \in LayerIds(layers) /\ bakedData # NullImage
     THEN onInteractionEnd(ReplaceImage(layers, activeLayerId, bakedData),
                           initEngine(CurrentEngine,
                                      [FindLayer(layers, activeLayerId) EXCEPT !.imageData = bakedData]))
     ELSE onInteractionEnd(layers, CurrentEngine)

\* handleCommit for the warp tools
CommitWarp ==
  \E bakedData \in {bakeCurrentWarp(CurrentEngine, FreshRef(UsedRefs, 1))} :
     IF activeLayerId \in LayerIds(layers) /\ bakedData # NullImage
     THEN LET activeLayer == FindLayer(layers, activeLayerId)
              updatedLayers == ReplaceImage(layers, activeLayerId, bakedData)
          IN onInteractionEnd(updatedLayers,
                              initEngine(CurrentEngine, [activeLayer EXCEPT !.imageData = bakedData]))
     ELSE UNCHANGED <<appVars, engineVars, distortCalls>> /\ NoCommit

handleCommit ==
  IF tool = "TRANSFORM" THEN onInteractionEnd(layers, CurrentEngine)
  ELSE IF tool = "LASSO" THEN UNCHANGED <<appVars, engineVars, distortCalls>> /\ NoCommit
  ELSE CommitWarp

\* A release that skips the length test: any path is masked
LassoInertAnyPath ==
  \/ activeOriginalDataRef = NullImage
  \/ ~(activeLayerId \in LayerIds(layers))

\* applyLassoMask's early returns
LassoInert ==
  \/ Len(lassoPath) < 3 \/ activeOriginalDataRef = NullImage
  \/ ~(activeLayerId \in LayerIds(layers))

\* A lasso release that masks the layer's raster as it is, without the bake
applyLassoMaskUnbaked ==
  IF LassoInert
  THEN UNCHANGED <<appVars, engineVars, distortCalls, lassoPath>> /\ NoCommit
  ELSE LET activeLayer == FindLayer(layers, activeLayerId)
           w == activeOriginalDataRef.width
           h == activeOriginalDataRef.height
       IN \E poly \in {[i \in 1..Len(lassoPath) |->
                            worldToLocal(lassoPath[i], activeLayer, w, h)]} :
          \E finalData \in {ImageData(FreshRef(UsedRefs, 1),
                                       MaskedPixels(activeOriginalDataRef.data, w, poly), w, h)} :
             /\ lassoPath' = <<>>
             /\ onInteractionEnd(ReplaceImage(layers, activeLayerId, finalData),
                                 initEngine(CurrentEngine, [activeLayer EXCEPT !.imageData = finalData]))

applyLassoMask ==
  IF LassoInert
  THEN UNCHANGED <<appVars, engineVars, distortCalls, lassoPath>> /\ NoCommit
  ELSE LET activeLayer == FindLayer(layers, activeLayerId)
           w == activeOriginalDataRef.width
           h == activeOriginalDataRef.height
       IN \E poly \in {[i \in 1..Len(lassoPath) |->
                            worldToLocal(lassoPath[i], activeLayer, w, h)]} :
          \E baked \in {bakeCurrentWarp(CurrentEngine, FreshRef(UsedRefs, 2))} :
          \E workingData \in {IF mapXRef # <<>> /\ mapYRef # <<>> /\ baked # NullImage
                               THEN baked ELSE activeOriginalDataRef} :
          \E finalData \in {ImageData(FreshRef(UsedRefs, 1),
                                       MaskedPixels(workingData.data, w, poly), w, h)} :
             /\ lassoPath' = <<>>
             /\ onInteractionEnd(ReplaceImage(layers, activeLayerId, finalData),
                                 initEngine(CurrentEngine, [activeLayer EXCEPT !.imageData = finalData]))

\* An end-of-gesture step that leaves the gesture active
onEndStaysActive ==
  IF ~isDrawing THEN UNCHANGED vars
  ELSE
     /\ events < MaxEvents
     /\ UNCHANGED <<gestureVars, appVars, toolVars, engineVars, distortCalls>>
     /\ Logged("onEnd")
     /\ NoCommit
     /\ UNCHANGED loadVars

\* onMouseUp, onMouseLeave and onTouchEnd are all bound to onEnd.  It ends a
\* gesture whatever ran before it, so the bound on events does not hold it back
\* An onEnd without the isDrawing check
onEndUnguarded ==
  /\ isDrawing' = FALSE
  /\ lastPoint' = NoPoint
  /\ transformHandle' = "NONE"
  /\ startTransformState' = NoTransform
  /\ IF tool = "LASSO" THEN applyLassoMask
     ELSE handleCommit /\ UNCHANGED lassoPath
  /\ UNCHANGED toolVars
  /\ Logged("onEnd")
  /\ UNCHANGED loadVars

onEnd ==
  IF ~isDrawing THEN UNCHANGED vars
  ELSE
     /\ isDrawing' = FALSE
     /\ lastPoint' = NoPoint
     /\ transformHandle' = "NONE"
     /\ startTransformState' = NoTransform
     /\ IF tool = "LASSO" THEN applyLassoMask
        ELSE handleCommit /\ UNCHANGED lassoPath
     /\ UNCHANGED toolVars
     /\ Logged("onEnd")
     /\ UNCHANGED loadVars

\* const handleMouseUp = onEnd, bound to onMouseUp and to onMouseLeave
handleMouseUp == onEnd

\* handleTouchStart: one touch starts a gesture; a second finger put down sets
\* isDrawing to false and nothing else (the pinch refs are no part of the model)
handleTouchStart(touches, p) ==
  IF touches = 1 THEN onStart(p)
  ELSE IF ~isDrawing THEN UNCHANGED vars
  ELSE
     /\ events < MaxEvents
     /\ isDrawing' = FALSE
     /\ UNCHANGED <<lastPoint, lassoPath, transformHandle, startTransformState>>
     /\ UNCHANGED <<appVars, toolVars, engineVars, distortCalls>>
     /\ Logged("handleTouchStart")
     /\ NoCommit
     /\ UNCHANGED loadVars

\* ToolsPanel: setTool(tool.id)
setTool(t) ==
  /\ events < MaxEvents
  /\ ~isDrawing
  /\ t # tool
  /\ tool' = t
  /\ UNCHANGED <<brushSettings, zoomLevel>>
  /\ UNCHANGED <<appVars, gestureVars, engineVars, distortCalls>>
  /\ Logged("setTool")
  /\ NoCommit
  /\ UNCHANGED loadVars

----------------------------------------------------------------------------
(* The App after mount: empty stack, history holding the initial step *)

InitApp ==
  /\ layers = <<>>
  /\ activeLayerId = NoId
  /\ history = <<HistoryStep(<<>>, NoId)>>
  /\ historyIndex = 0
  /\ pendingLoads = <<>>
  /\ pendingGeneration = NoGeneration
  /\ alerts = 0
  /\ tool = "WARP"
  /\ brushSettings = [size |-> 150, strength |-> UNIT \div 2]
  /\ zoomLevel = UNIT

InitCanvas ==
  /\ isDrawing = FALSE
  /\ lastPoint = NoPoint
  /\ lassoPath = <<>>
  /\ transformHandle = "NONE"
  /\ startTransformState = NoTransform
  /\ mapXRef = <<>>
  /\ mapYRef = <<>>
  /\ activeOriginalDataRef = NullImage
  /\ loadedLayerIdRef = NoId

InitLog ==
  /\ distortCalls = <<>>
  /\ lastOp = "mount"
  /\ events = 0
  /\ lastCommits = <<>>
  /\ sinceCommit = 0
  /\ beforeUndo = NoUndo

Init == InitApp /\ InitCanvas /\ InitLog

NextApp ==
  \/ \E img \in UploadImages : addImageLayer(img, "Image")
  \/ \E k \in 1..Len(pendingLoads) : imgOnload(k)
  \/ \E id \in LayerIds(layers) : toggleLayerVisibility(id)
  \/ \E id \in LayerIds(layers) : deleteLayer(id)
  \/ \E id \in LayerIds(layers), dir \in {"up", "down"} : moveLayer(id, dir)
  \/ duplicateActiveLayer
  \/ \E u \in LayerUpdates : activeLayerId \in LayerIds(layers) /\ updateLayerProperty(activeLayerId, u[1], u[2])
  \/ \E id \in LayerIds(layers) : setActiveLayerId(id)
  \/ undoAction
  \/ redoAction

\* Pointer positions in world space (getPointerWorldPos of the event)
PointerPoints == {<<0 - UNIT, 0 - UNIT>>, <<0, 0 - UNIT>>, <<0, UNIT>>}

PanelTools == {"WARP", "LASSO"}

NextCanvas ==
  \/ \E p \in PointerPoints : onStart(p)
  \/ \E p \in PointerPoints : onMove(p)
  \/ handleMouseUp
  \/ onEnd
  \/ \E touches \in {1, 2}, p \in PointerPoints : handleTouchStart(touches, p)
  \/ \E t \in PanelTools : setTool(t)

Next == NextApp \/ NextCanvas

Spec == Init /\ [][Next]_vars

\* The pointer that went down goes up or leaves the canvas in the end: the
\* browser then delivers mouseup, mouseleave or touchend, all bound to onEnd
SpecLive == Init /\ [][Next]_vars /\ WF_vars(onEnd)

\* ---------------------------------------------------------------------------
\* The app with image generation and with loads that fail
\* ---------------------------------------------------------------------------
NextLoad ==
  \/ NextApp
  \/ handleGenerate
  \/ \E img \in UploadImages : generateResolved(img)
  \/ generateRejected
  \/ \E k \in 1..Len(pendingLoads) : imgOnerror(k)
  \/ readerOnerror

SpecLoad == Init /\ [][NextLoad]_vars

\* The await of handleGenerate ends: generateSampleImage's promise is
\* fulfilled or rejected
generateSettled ==
  \/ \E img \in UploadImages : generateResolved(img)
  \/ generateRejected

\* The request of a generation that was started ends: its promise settles
SpecLoadLive == Init /\ [][NextLoad]_vars /\ WF_vars(generateSettled)

\* Image files by their pixel sizes: within the limit, at the limit, and wider
\* or taller than the limit
ScaleSizes ==
  {<<1, 1>>, <<2, 1>>, <<1, 2>>, <<2048, 1>>, <<2049, 1>>, <<2, 3000>>,
   <<4096, 1>>, <<4097, 1>>, <<1, 4097>>}

ScaleImages == {SourceImage(wh[1], wh[2], 10) : wh \in ScaleSizes}

\* Events explored when these images are loaded
ScaleEvents == 2

InitScale ==
  /\ InitApp
  /\ InitCanvas
  /\ distortCalls = <<>>
  /\ lastOp = "mount"
  /\ events = MaxEvents - ScaleEvents
  /\ lastCommits = <<>>
  /\ sinceCommit = 0
  /\ beforeUndo = NoUndo

NextScale ==
  \/ \E img \in ScaleImages : addImageLayer(img, "Image")
  \/ \E k \in 1..Len(pendingLoads) : imgOnload(k)
  \/ \E id \in LayerIds(layers) : deleteLayer(id)
  \/ undoAction
  \/ redoAction

SpecScale == InitScale /\ [][NextScale]_vars

----------------------------------------------------------------------------
(* The editor with one image loaded: the state addImageLayer and its onload leave from Init *)

LoadedLayer(img) == NewLayer(1, <<"Image", 1>>, ImageData(1, img.data, img.width, img.height))

LoadedHistory(img) ==
  CommitHistory(<<HistoryStep(<<>>, NoId)>>, 0, <<LoadedLayer(img)>>, 1, {1})

\* One image loaded and committed, no gesture; the engine refs are left open
LoadedIdle(img) ==
  /\ layers = <<LoadedLayer(img)>>
  /\ activeLayerId = 1
  /\ history = LoadedHistory(img)
  /\ historyIndex = CommitIndex(0)
  /\ pendingLoads = <<>>
  /\ pendingGeneration = NoGeneration
  /\ alerts = 0
  /\ isDrawing = FALSE
  /\ lastPoint = NoPoint
  /\ lassoPath = <<>>
  /\ transformHandle = "NONE"
  /\ startTransformState = NoTransform
  /\ InitLog

InitLoaded(img) ==
  /\ LoadedIdle(img)
  /\ SetEngineNow(initEngine(NullEngine, LoadedLayer(img)))

----------------------------------------------------------------------------
(* A full history: one image loaded, then its visibility toggled until the
   history holds HISTORY_MAX_STEPS snapshots *)

ToggledLayer(img, n) == [LoadedLayer(img) EXCEPT !.visible = (n % 2 = 0)]

HistoryRefs(hist) == UNION {RefsOf(hist[i].layers) : i \in 1..Len(hist)}

RECURSIVE HistoryAfterToggles(_, _)
HistoryAfterToggles(img, n) ==
  IF n = 0 THEN LoadedHistory(img)
  ELSE LET prev == HistoryAfterToggles(img, n - 1)
       IN CommitHistory(prev, Len(prev) - 1, <<ToggledLayer(img, n)>>, 1,
                        {1} \cup HistoryRefs(prev))

FullToggles == HISTORY_MAX_STEPS - 2

\* Events explored from the full history
FullEvents == 3

InitFull ==
  /\ layers = <<ToggledLayer(UploadImage, FullToggles)>>
  /\ activeLayerId = 1
  /\ history = HistoryAfterToggles(UploadImage, FullToggles)
  /\ historyIndex = HISTORY_MAX_STEPS - 1
  /\ pendingLoads = <<>>
  /\ pendingGeneration = NoGeneration
  /\ alerts = 0
  /\ tool = "WARP"
  /\ brushSettings = [size |-> 150, strength |-> UNIT \div 2]
  /\ zoomLevel = UNIT
  /\ isDrawing = FALSE
  /\ lastPoint = NoPoint
  /\ lassoPath = <<>>
  /\ transformHandle = "NONE"
  /\ startTransformState = NoTransform
  /\ SetEngineNow(initEngine(NullEngine, LoadedLayer(UploadImage)))
  /\ distortCalls = <<>>
  /\ lastOp = "toggleLayerVisibility"
  /\ events = MaxEvents - FullEvents
  /\ lastCommits = <<>>
  /\ sinceCommit = 0
  /\ beforeUndo = NoUndo

SpecFull == InitFull /\ [][Next]_vars

\* ---------------------------------------------------------------------------
\* The app after two image loads: history [initial, [A], [A, B]], B active
\* ---------------------------------------------------------------------------
TwoLayers ==
  <<LoadedLayer(UploadImage),
    NewLayer(2, <<"Image", 2>>, ImageData(3, Pixels(1, 1, 40), 1, 1))>>

InitTwoLayers ==
  /\ layers = TwoLayers
  /\ activeLayerId = 2
  /\ history = CommitHistory(LoadedHistory(UploadImage), 1, TwoLayers, 2, {1, 2, 3})
  /\ historyIndex = CommitIndex(1)
  /\ pendingLoads = <<>>
  /\ pendingGeneration = NoGeneration
  /\ alerts = 0
  /\ tool = "WARP"
  /\ brushSettings = [size |-> 150, strength |-> UNIT \div 2]
  /\ zoomLevel = UNIT
  /\ isDrawing = FALSE
  /\ lastPoint = NoPoint
  /\ lassoPath = <<>>
  /\ transformHandle = "NONE"
  /\ startTransformState = NoTransform
  /\ SetEngineNow(initEngine(NullEngine, TwoLayers[2]))
  /\ InitLog

SpecTwoLayers == InitTwoLayers /\ [][NextApp]_vars

\* A stack of three layers after three uploads, the middle one selected: the
\* layer panel's operations on a stack with a top, a middle and a bottom
ThreeLayers ==
  Append(TwoLayers, NewLayer(3, <<"Image", 3>>, ImageData(6, Pixels(1, 1, 70), 1, 1)))

InitStack ==
  /\ layers = ThreeLayers
  /\ activeLayerId = 2
  /\ history = CommitHistory(CommitHistory(LoadedHistory(UploadImage), 1, TwoLayers, 2, {1, 2, 3}),
                             2, ThreeLayers, 3, 1..6)
  /\ historyIndex = CommitIndex(2)
  /\ pendingLoads = <<>>
  /\ pendingGeneration = NoGeneration
  /\ alerts = 0
  /\ tool = "WARP"
  /\ brushSettings = [size |-> 150, strength |-> UNIT \div 2]
  /\ zoomLevel = UNIT
  /\ isDrawing = FALSE
  /\ lastPoint = NoPoint
  /\ lassoPath = <<>>
  /\ transformHandle = "NONE"
  /\ startTransformState = NoTransform
  /\ SetEngineNow(initEngine(NullEngine, ThreeLayers[2]))
  /\ InitLog

NextStack ==
  \/ \E id \in LayerIds(layers) : deleteLayer(id)
  \/ \E id \in LayerIds(layers), dir \in {"up", "down"} : moveLayer(id, dir)
  \/ \E id \in LayerIds(layers) : setActiveLayerId(id)
  \/ undoAction
  \/ redoAction

SpecStack == InitStack /\ [][NextStack]_vars

----------------------------------------------------------------------------
(* The warp engine alone: applyDistortion called with arguments drawn from
   StrokeCentres and StrokeDeltas on a loaded image, zoomed in so that the
   brush is a few pixels wide, and the bake at the end of the gesture *)

WarpImages == {SourceImage(4, 4, 10), SourceImage(3, 2, 20)}
WarpStrengths == {UNIT, UNIT \div 2}

\* Brush centres, in layer-local space
StrokeCentres == {<<2 * UNIT, 2 * UNIT>>, <<0, 2 * UNIT>>,
                  <<(3 * UNIT) \div 2, (3 * UNIT) \div 2>>}
\* mouse - prev
StrokeDeltas == {<<UNIT, 0>>, <<3 * UNIT, 0>>, <<0 - (UNIT \div 2), UNIT \div 2>>}

InitWarp ==
  /\ \E img \in WarpImages : InitLoaded(img)
  /\ tool \in WarpTools
  /\ brushSettings \in {[size |-> 20, strength |-> st] : st \in WarpStrengths}
  /\ zoomLevel = 5 * UNIT

\* pointer down at centre - delta, then one move to centre: one applyDistortion call
Stroke(centre, delta) ==
  /\ events < MaxStrokes
  /\ tool \in WarpTools
  /\ activeLayerId \in LayerIds(layers)
  /\ LET c == DistortCall(centre[1], centre[2], centre[1] - delta[1], centre[2] - delta[2],
                          LocalRadius(brushSettings.size, zoomLevel,
                                      FindLayer(layers, activeLayerId).scale),
                          brushSettings.strength, tool)
     IN \E eng \in {applyDistortion(CurrentEngine, c)} :
           /\ SetEngine(eng)
           /\ distortCalls' = CallsAfter(eng, Append(distortCalls, c))
  /\ isDrawing' = TRUE
  /\ lastPoint' = centre
  /\ UNCHANGED <<lassoPath, transformHandle, startTransformState>>
  /\ UNCHANGED <<appVars, toolVars>>
  /\ Logged("applyDistortion")
  /\ NoCommit
  /\ UNCHANGED loadVars

NextWarp ==
  \/ \E centre \in StrokeCentres, delta \in StrokeDeltas : Stroke(centre, delta)
  \/ onEnd

SpecWarp == InitWarp /\ [][NextWarp]_vars

----------------------------------------------------------------------------
(* Whole gestures on a loaded image: a lasso path drawn point by point, a
   stroke, a second finger put down, a change of tool, and the release *)

GestureImages == {SourceImage(4, 4, 10), SourceImage(2, 2, 30), SourceImage(3, 2, 20)}

\* The rectangle over the left half of a w x h raster whose layer is centred
\* on the origin, in world space
LeftHalfPath(w, h) ==
  <<<<0 - (w * UNIT) \div 2, 0 - (h * UNIT) \div 2>>, <<0, 0 - (h * UNIT) \div 2>>,
    <<0, (h * UNIT) \div 2>>, <<0 - (w * UNIT) \div 2, (h * UNIT) \div 2>>>>

\* s read backwards
Reversed(s) == [i \in 1..Len(s) |-> s[Len(s) + 1 - i]]

\* The pointer positions of the lasso gestures, in world space
LassoPaths ==
  {LeftHalfPath(4, 4), LeftHalfPath(2, 2), LeftHalfPath(3, 2), Reversed(LeftHalfPath(4, 4)),
   <<<<0 - UNIT, 0 - UNIT>>, <<UNIT, 0 - UNIT>>, <<0, UNIT>>>>,
   <<<<0 - UNIT, 0 - UNIT>>, <<UNIT, UNIT>>>>,
   <<<<0, 0>>>>}

\* Brush centres: on the raster, two pixels and three pixels left of it (the
\* brush, of radius two, touches the edge or misses it), and below it
GestureCentres ==
  {<<UNIT, UNIT>>, <<0 - 2 * UNIT, UNIT>>, <<0 - 3 * UNIT, UNIT>>, <<UNIT, 7 * UNIT>>}
GestureDeltas == {<<UNIT, 0>>}

InitGesture ==
  /\ \E img \in GestureImages : InitLoaded(img)
  /\ tool \in {"WARP", "LASSO"}
  /\ brushSettings = [size |-> 20, strength |-> UNIT]
  /\ zoomLevel = 5 * UNIT

\* onStart(path[1]), then onMove(path[i]) for every further point, with the
\* lasso tool: the path is collected
LassoGesture(path) ==
  /\ events < MaxEvents
  /\ tool = "LASSO"
  /\ ~isDrawing
  /\ isDrawing' = TRUE
  /\ lassoPath' = path
  /\ UNCHANGED <<lastPoint, transformHandle, startTransformState>>
  /\ UNCHANGED <<appVars, toolVars, engineVars, distortCalls>>
  /\ Logged("onMove")
  /\ NoCommit
  /\ UNCHANGED loadVars

NextGesture ==
  \/ \E path \in LassoPaths : LassoGesture(path)
  \/ \E centre \in GestureCentres, delta \in GestureDeltas : Stroke(centre, delta)
  \/ onEnd
  \/ \E p \in PointerPoints : handleTouchStart(2, p)
  \/ \E t \in PanelTools : setTool(t)

SpecGesture == InitGesture /\ [][NextGesture]_vars

\* ---------------------------------------------------------------------------
\* TRANSFORM gestures on a loaded layer of 6x1 pixels at zoom 5: the handle
\* radius is 3 pixels, so the centre of the layer hits BODY, the left edge a
\* corner handle, the point 30 pixels above the centre ROTATE and a far point
\* no handle
\* ---------------------------------------------------------------------------
TransformImage == SourceImage(6, 1, 50)

TransformPoints == {<<0, 0>>, <<0 - 3 * UNIT, 0>>, <<0, 0 - 30 * UNIT>>, <<30 * UNIT, 0>>}

\* The map is the identity, or holds the stroke that a second finger interrupted
InitTransform ==
  \E eng \in {initEngine(NullEngine, LoadedLayer(TransformImage))} :
  \E unbaked \in {eng, applyDistortion(eng, DistortCall(3 * UNIT, 0, 2 * UNIT, 0, 2 * UNIT,
                                                         UNIT, "WARP"))} :
     /\ LoadedIdle(TransformImage)
     /\ SetEngineNow(unbaked)
     /\ tool \in {"TRANSFORM", "WARP"}
     /\ brushSettings = [size |-> 20, strength |-> UNIT]
     /\ zoomLevel = 5 * UNIT

NextTransform ==
  \/ \E p \in TransformPoints : onStart(p)
  \/ \E p \in TransformPoints : onMove(p)
  \/ onEnd
  \/ \E p \in TransformPoints : handleTouchStart(2, p)
  \/ \E t \in {"TRANSFORM", "WARP"} : setTool(t)
  \/ undoAction
  \/ redoAction

SpecTransform == InitTransform /\ [][NextTransform]_vars

----------------------------------------------------------------------------
(* The samplers on any map: one image loaded, one map entry set to any point,
   far outside the raster included, then strokes and the bake *)

\* Coordinates a map entry can hold: far left, just left of 0, inside, past
\* the last cell, far right (a hundred pixels from a raster of two or three;
\* the products of the weights stay within 32-bit integers)
SamplerValues ==
  {0 - 100 * UNIT, 0 - (UNIT \div 2), UNIT \div 4, 3 * UNIT + (UNIT \div 2), 100 * UNIT}

\* mouse - prev: a short move and moves of thirty pixels
SamplerDeltas == {<<UNIT, 0>>, <<0 - 30 * UNIT, 20 * UNIT>>, <<30 * UNIT, 0 - 30 * UNIT>>}

InitSampler ==
  \E img \in {SourceImage(2, 2, 10), SourceImage(3, 1, 20)} :
  \E vx \in SamplerValues, vy \in SamplerValues :
  \E i \in 1..(img.width * img.height) :
     LET eng == initEngine(NullEngine, LoadedLayer(img))
     IN /\ LoadedIdle(img)
        /\ SetEngineNow([eng EXCEPT !.mapX[i] = vx, !.mapY[i] = vy])
        /\ tool = "WARP"
        /\ brushSettings = [size |-> 20, strength |-> UNIT]
        /\ zoomLevel = 5 * UNIT

NextSampler ==
  \/ \E centre \in {<<UNIT, UNIT>>, <<0, 0>>}, delta \in SamplerDeltas : Stroke(centre, delta)
  \/ onEnd

SpecSampler == InitSampler /\ [][NextSampler]_vars

----------------------------------------------------------------------------
(* Properties: history *)

\* The same layers field by field and pixel by pixel, whatever buffers hold the pixels
DeepEqual(a, b) ==
  /\ Len(a) = Len(b)
  /\ \A i \in 1..Len(a) :
        [a[i] EXCEPT !.imageData = ImageData(0, @.data, @.width, @.height)]
        = [b[i] EXCEPT !.imageData = ImageData(0, @.data, @.width, @.height)]

\* A step in which the handler op changed the state
StepOf(op) == lastOp' = op /\ events' = events + 1

\* A step that called commitToHistory
CommitStep == events' = events + 1 /\ sinceCommit' = 0

\* commitToHistory(S1) and commitToHistory(S2) were the last two handlers to run
TwoCommits == Len(lastCommits) = 2 /\ lastCommits[2].gap = 0

\* C1: after commitToHistory(S1) then commitToHistory(S2), undoAction sets the
\* layers and the active layer id to a deep-equal copy of S1, and a following
\* redoAction sets them to a deep-equal copy of S2.
C1_UndoRedoRestore ==
  [][/\ (TwoCommits /\ sinceCommit = 0 /\ StepOf("undoAction")) =>
          /\ DeepEqual(layers', lastCommits[1].layers)
          /\ activeLayerId' = lastCommits[1].activeLayerId
     /\ (TwoCommits /\ sinceCommit = 1 /\ lastOp = "undoAction" /\ StepOf("redoAction")) =>
          /\ DeepEqual(layers', lastCommits[2].layers)
          /\ activeLayerId' = lastCommits[2].activeLayerId
    ]_vars

\* C2: a commit made while historyIndex is below the last index discards the
\* entries above historyIndex, its snapshot is the last entry, historyIndex
\* points at it, and redoAction then changes nothing.
C2_CommitDiscardsRedo ==
  [][(CommitStep /\ historyIndex < Len(history) - 1) =>
        /\ \A i \in (historyIndex + 2)..Len(history) : ~(history[i] \in SeqRange(history'))
        /\ DeepEqual(history'[Len(history')].layers, lastCommits'[Len(lastCommits')].layers)
        /\ historyIndex' = Len(history') - 1
        /\ ~CanRedo'
    ]_vars

\* C3: the history never holds more than HISTORY_MAX_STEPS entries; a commit
\* made when it is full and the index is at the tip drops exactly the oldest
\* entry, appends the new snapshot and keeps the order of the others.
C3_HistoryBounded ==
  /\ [](Len(history) <= HISTORY_MAX_STEPS)
  /\ [][(CommitStep /\ Len(history) = HISTORY_MAX_STEPS
                    /\ historyIndex = HISTORY_MAX_STEPS - 1) =>
           /\ Len(history') = HISTORY_MAX_STEPS
           /\ \A i \in 1..(HISTORY_MAX_STEPS - 1) : history'[i] = history[i + 1]
           /\ DeepEqual(history'[HISTORY_MAX_STEPS].layers,
                        lastCommits'[Len(lastCommits')].layers)
       ]_vars

\* The pixel buffers a step of the history holds
StepRefs(step) == RefsOf(step.layers)

\* C4: every snapshot holds pixel buffers of its own (none shared with the live
\* layers, the engine or another snapshot), so undo and redo hand out copies;
\* and no step changes the contents of a snapshot that stays in the history.
C4_SnapshotsIsolated ==
  /\ [](\A i \in 1..Len(history) :
          /\ StepRefs(history[i]) \cap RefsOf(layers) = {}
          /\ ~(activeOriginalDataRef.ref \in StepRefs(history[i]))
          /\ Cardinality(StepRefs(history[i])) = Len(history[i].layers)
          /\ \A j \in 1..Len(history) :
                i # j => StepRefs(history[i]) \cap StepRefs(history[j]) = {})
  /\ [][\A i \in 1..Len(history), j \in 1..Len(history') :
           StepRefs(history[i]) \cap StepRefs(history'[j]) # {} => history'[j] = history[i]
       ]_vars

\* C4 witness: a stroke was baked into the live raster: the live pixels
\* changed, the snapshot of the loaded image still holds the pixels as loaded
C4_Witness ==
  /\ lastOp = "onEnd" /\ sinceCommit = 0
  /\ Len(history) = 3 /\ Len(layers) = 1
  /\ history[2].layers[1].imageData.data = UploadImage.data
  /\ layers[1].imageData.data # UploadImage.data
  /\ history[3].layers[1].imageData.data = layers[1].imageData.data

----------------------------------------------------------------------------
(* Properties: the warp engine *)

\* The raster the engine works on
RasterW == activeOriginalDataRef.width
RasterH == activeOriginalDataRef.height
PixelX(i) == (i - 1) % RasterW
PixelY(i) == (i - 1) \div RasterW

\* C5: with the identity map initEngine makes, renderRegionFromMapsRef over the
\* whole raster, and so bakeCurrentWarp, gives the original pixels in every
\* channel of every pixel.
C5_IdentityRender ==
  IsIdentityMap(CurrentEngine) =>
    /\ renderRegionFromMapsRef(0, 0, RasterW, RasterH, RasterW, RasterH,
                               mapXRef, mapYRef, activeOriginalDataRef)
       = activeOriginalDataRef.data
    /\ bakeCurrentWarp(CurrentEngine, 0).data = activeOriginalDataRef.data

\* C5 witness: a warped raster was baked and initEngine made a new identity
\* map over it
C5_Witness ==
  /\ lastOp = "onEnd" /\ sinceCommit = 0
  /\ IsIdentityMap(CurrentEngine)
  /\ \A img \in WarpImages : activeOriginalDataRef.data # img.data
  /\ bakeCurrentWarp(CurrentEngine, 0).data = activeOriginalDataRef.data

\* The applyDistortion call a step made
StrokeStep == StepOf("applyDistortion") /\ distortCalls' # <<>>
StrokeCall == distortCalls'[Len(distortCalls')]

\* Squared distance of pixel i to the point <<cx, cy>>, in 1/UNIT^2
PixelDistSq(i, cx, cy) ==
  (PixelX(i) * UNIT - cx) * (PixelX(i) * UNIT - cx)
  + (PixelY(i) * UNIT - cy) * (PixelY(i) * UNIT - cy)

\* C6: one applyDistortion call with brush centre c and local radius R leaves
\* mapX and mapY as they were at every pixel at distance R or more from c,
\* whatever the tool, the stroke and the map before.
C6_OutsideUnchanged ==
  [][StrokeStep =>
       \A i \in 1..Len(mapXRef) :
          PixelDistSq(i, StrokeCall.mouseX, StrokeCall.mouseY)
             >= StrokeCall.localRadius * StrokeCall.localRadius
          => mapXRef'[i] = mapXRef[i] /\ mapYRef'[i] = mapYRef[i]
    ]_vars

\* C6 witness: a second stroke on a warped map, with a displaced entry outside
\* its radius and an entry inside that it changed
C6_Witness ==
  /\ Len(distortCalls) = 2 /\ lastOp = "applyDistortion"
  /\ \E i \in 1..Len(mapXRef) :
        /\ PixelDistSq(i, distortCalls[2].mouseX, distortCalls[2].mouseY)
             >= distortCalls[2].localRadius * distortCalls[2].localRadius
        /\ mapXRef[i] # PixelX(i) * UNIT
  /\ applyDistortion(initEngine(NullEngine, [id |-> 1, imageData |-> activeOriginalDataRef]),
                     distortCalls[1]).mapX # mapXRef

\* C7: at every pixel strictly inside the radius the value written is the
\* bilinear sample, at the tool's lookup point, of the map as it was before
\* the call.
C7_SamplesOldMap ==
  [][StrokeStep =>
       \A i \in 1..Len(mapXRef) :
          PixelDistSq(i, StrokeCall.mouseX, StrokeCall.mouseY)
             < StrokeCall.localRadius * StrokeCall.localRadius
          => LET look == SourceLookup(StrokeCall, PixelX(i), PixelY(i))
             IN /\ mapXRef'[i] = sample(mapXRef, RasterW, RasterH, look[1], look[2])
                /\ mapYRef'[i] = sample(mapYRef, RasterW, RasterH, look[1], look[2])
    ]_vars

\* C7 witness: a stroke on a warped map wrote, inside its radius, a value that
\* is not the lookup point
C7_Witness ==
  /\ Len(distortCalls) = 2 /\ lastOp = "applyDistortion"
  /\ \E i \in 1..Len(mapXRef) :
        /\ PixelDistSq(i, distortCalls[2].mouseX, distortCalls[2].mouseY)
             < distortCalls[2].localRadius * distortCalls[2].localRadius
        /\ <<mapXRef[i], mapYRef[i]>> # SourceLookup(distortCalls[2], PixelX(i), PixelY(i))
        /\ SourceLookup(distortCalls[2], PixelX(i), PixelY(i))
             # <<PixelX(i) * UNIT, PixelY(i) * UNIT>>

\* The engine initEngine makes for the raster at hand
FreshEngine == initEngine(NullEngine, [id |-> loadedLayerIdRef, imageData |-> activeOriginalDataRef])

\* The point <<x, y>> (in 1/UNIT) is a pixel of the raster
IsPixel(x, y) ==
  /\ x % UNIT = 0 /\ y % UNIT = 0
  /\ 0 <= x /\ x <= (RasterW - 1) * UNIT
  /\ 0 <= y /\ y <= (RasterH - 1) * UNIT

\* The four neighbours a bilinear sample at <<x, y>> reads are on the raster
Unclamped(x, y) ==
  /\ 0 <= x /\ Ceil(x) <= RasterW - 1
  /\ 0 <= y /\ Ceil(y) <= RasterH - 1

\* Index of the pixel at the point <<x, y>>
PixelAt(x, y) == (y \div UNIT) * RasterW + (x \div UNIT) + 1

\* Two equal WARP strokes with a non-zero delta were applied to the identity
\* map, their centre a pixel
TwoEqualWarps ==
  /\ Len(distortCalls) = 2 /\ distortCalls[1] = distortCalls[2]
  /\ distortCalls[1].tool = "WARP"
  /\ <<distortCalls[1].prevX, distortCalls[1].prevY>>
       # <<distortCalls[1].mouseX, distortCalls[1].mouseY>>
  /\ IsPixel(distortCalls[1].mouseX, distortCalls[1].mouseY)

\* The map entry the two strokes leave at the centre differs from the one
\* that one stroke leaves there
CentreDiffers ==
  LET c == distortCalls[1]
      i == PixelAt(c.mouseX, c.mouseY)
      one == applyDistortion(FreshEngine, c)
  IN <<mapXRef[i], mapYRef[i]>> # <<one.mapX[i], one.mapY[i]>>

\* C8 as stated: two sequential WARP strokes at the same position with the
\* same non-zero delta, from the identity map, leave at the brush centre a
\* displacement different from that of one stroke alone.
C8_TwoStrokesDiffer == TwoEqualWarps => CentreDiffers

\* delta * strength of a call, in 1/UNIT
StrokeShift(c) ==
  <<RoundDiv((c.mouseX - c.prevX) * c.strength, UNIT),
    RoundDiv((c.mouseY - c.prevY) * c.strength, UNIT)>>

\* The centre's lookup point c - delta*strength is nearer to the centre than R,
\* and the samples at it and at c - 2*delta*strength are not clamped
CentreLookupInside ==
  LET c == distortCalls[1]
      sh == StrokeShift(c)
  IN /\ sh[1] * sh[1] + sh[2] * sh[2] < c.localRadius * c.localRadius
     /\ Unclamped(c.mouseX - sh[1], c.mouseY - sh[2])
     /\ Unclamped(c.mouseX - 2 * sh[1], c.mouseY - 2 * sh[2])

\* C8 amended: the displacement differs when the centre's lookup point
\* c - delta*strength lies nearer to the centre than R and the samples taken at
\* c - delta*strength and c - 2*delta*strength are not clamped at the border.
C8_TwoStrokesDifferInside == (TwoEqualWarps /\ CentreLookupInside) => CentreDiffers

\* C8 witness: two such strokes whose second moved the centre's entry further
C8_Witness ==
  /\ TwoEqualWarps /\ CentreLookupInside /\ CentreDiffers
  /\ lastOp = "applyDistortion"

\* One WARP stroke was applied to the identity map, its centre on the raster
OneWarp ==
  /\ Len(distortCalls) = 1 /\ distortCalls[1].tool = "WARP"
  /\ 0 <= distortCalls[1].mouseX /\ distortCalls[1].mouseX <= (RasterW - 1) * UNIT
  /\ 0 <= distortCalls[1].mouseY /\ distortCalls[1].mouseY <= (RasterH - 1) * UNIT

\* Squared displacement |map entry - p| of pixel i, in 1/UNIT^2
DisplacementSq(i) ==
  (mapXRef[i] - PixelX(i) * UNIT) * (mapXRef[i] - PixelX(i) * UNIT)
  + (mapYRef[i] - PixelY(i) * UNIT) * (mapYRef[i] - PixelY(i) * UNIT)

\* Squared distance of pixel i to the centre of the stroke
CentreDistSq(i) == PixelDistSq(i, distortCalls[1].mouseX, distortCalls[1].mouseY)
StrokeRadiusSq == distortCalls[1].localRadius * distortCalls[1].localRadius

\* The displacement does not grow with the distance among the pixels in ps,
\* and is 0 at distance R
FalloffOn(ps) ==
  /\ \A i \in ps, j \in ps :
        (CentreDistSq(i) < CentreDistSq(j) /\ CentreDistSq(j) < StrokeRadiusSq)
        => DisplacementSq(i) >= DisplacementSq(j)
  /\ \A i \in 1..Len(mapXRef) : CentreDistSq(i) = StrokeRadiusSq => DisplacementSq(i) = 0

\* C9 as stated: after one WARP stroke on the identity map, for every centre
\* on the raster and every delta, the displacement at a pixel at distance
\* d < R is non-increasing in d, and it is 0 at d = R.
C9_FalloffMonotone == OneWarp => FalloffOn(1..Len(mapXRef))

\* The pixels inside the radius whose lookup point lies on the raster
UnclampedPixels ==
  {i \in 1..Len(mapXRef) :
     /\ CentreDistSq(i) < StrokeRadiusSq
     /\ LET look == SourceLookup(distortCalls[1], PixelX(i), PixelY(i))
        IN Unclamped(look[1], look[2])}

\* C9 amended: the same, among the pixels whose lookup point p - delta*power
\* lies on the raster, so that its sample is not clamped at the border.
C9_FalloffMonotoneUnclamped == OneWarp => FalloffOn(UnclampedPixels)

\* C9 witness: a stroke with unclamped pixels at two distances below R, the
\* nearer displaced more, and a pixel at distance R
C9_Witness ==
  /\ OneWarp /\ lastOp = "applyDistortion"
  /\ \E i \in UnclampedPixels, j \in UnclampedPixels :
        /\ CentreDistSq(i) < CentreDistSq(j) /\ CentreDistSq(j) < StrokeRadiusSq
        /\ DisplacementSq(i) > DisplacementSq(j) /\ DisplacementSq(j) > 0
  /\ \E i \in 1..Len(mapXRef) : CentreDistSq(i) = StrokeRadiusSq

\* The stroke of C10: WARP, centre (2,2), local radius 2, strength 1, delta (1,0)
C10Call == DistortCall(2 * UNIT, 2 * UNIT, UNIT, 2 * UNIT, 2 * UNIT, UNIT, "WARP")

C10Stroke ==
  /\ RasterW = 4 /\ RasterH = 4
  /\ distortCalls = <<C10Call>>

\* C10: on a 4x4 raster with the identity map, that stroke sets the entry of
\* pixel (2,2) to (1,2) and leaves the entry of pixel (0,0) at (0,0).
C10_WorkedExample ==
  C10Stroke =>
    /\ At(mapXRef, 2 * 4 + 2) = UNIT /\ At(mapYRef, 2 * 4 + 2) = 2 * UNIT
    /\ At(mapXRef, 0) = 0 /\ At(mapYRef, 0) = 0

\* C10 witness: the stroke was applied
C10_Witness == C10Stroke /\ lastOp = "applyDistortion" /\ At(mapXRef, 2 * 4 + 2) = UNIT

----------------------------------------------------------------------------
(* Properties: lasso mask *)

\* The lasso path in the space of the active raster
LocalLassoPath ==
  [i \in 1..Len(lassoPath) |->
     worldToLocal(lassoPath[i], FindLayer(layers, activeLayerId), RasterW, RasterH)]

\* The corners of the left half of the active raster
LeftHalfCorners ==
  <<<<0, 0>>, <<(RasterW * UNIT) \div 2, 0>>,
    <<(RasterW * UNIT) \div 2, RasterH * UNIT>>, <<0, RasterH * UNIT>>>>

\* poly goes once round the left half of the raster, from any corner, either way
CoversLeftHalf(poly) ==
  /\ Len(poly) = 4
  /\ \E k \in 0..3 :
        \/ \A i \in 1..4 : poly[i] = LeftHalfCorners[((i - 1 + k) % 4) + 1]
        \/ \A i \in 1..4 : poly[i] = Reversed(LeftHalfCorners)[((i - 1 + k) % 4) + 1]

\* A release of the lasso that masks the raster
LassoRelease == StepOf("onEnd") /\ tool = "LASSO" /\ ~LassoInert

\* newData is oldData with alpha 0 at the pixels wholly in the right half of
\* the raster, and nothing else changed
HalfMasked(oldData, newData) ==
  /\ Len(newData) = Len(oldData)
  /\ \A i \in 1..(RasterW * RasterH) :
        /\ \A c \in 1..3 : newData[4 * (i - 1) + c] = oldData[4 * (i - 1) + c]
        /\ newData[4 * i] = IF 2 * PixelX(i) >= RasterW THEN 0 ELSE oldData[4 * i]

----------------------------------------------------------------------------
(* Properties: bake *)

\* The engine refs after the step
NextEngine == Engine(mapXRef', mapYRef', activeOriginalDataRef', loadedLayerIdRef')

\* The active layer is in the stack and has image data
ActiveHasData ==
  /\ activeLayerId \in LayerIds(layers)
  /\ FindLayer(layers, activeLayerId).imageData # NullImage

\* The pointer goes up on a gesture with a warp-family tool
WarpRelease == StepOf("onEnd") /\ isDrawing /\ tool \in WarpTools /\ ActiveHasData

\* C12: on pointer-up of a gesture with a warp-family tool on an active layer
\* with image data, the layer's raster is replaced by a new raster of the same
\* width and height, the full render of the map over the raster it had; the
\* map is reset to the identity over the new raster, so that rendering it
\* again gives the new raster (the warp is not applied twice) and a following
\* stroke starts from the identity.
C12_BakeResetsMap ==
  [][WarpRelease =>
       LET old == FindLayer(layers, activeLayerId).imageData
           new == FindLayer(layers', activeLayerId).imageData
       IN /\ ~(new.ref \in UsedRefs)
          /\ new.width = old.width /\ new.height = old.height
          /\ new.data = renderRegionFromMapsRef(0, 0, old.width, old.height, old.width,
                                                old.height, mapXRef, mapYRef, old)
          /\ activeOriginalDataRef' = new
          /\ IsIdentityMap(NextEngine)
          /\ renderRegionFromMapsRef(0, 0, new.width, new.height, new.width, new.height,
                                     mapXRef', mapYRef', new) = new.data
          /\ distortCalls' = <<>>]_vars

\* C12 witness: a gesture was released, its warp is in the pixels of the
\* layer and the map is the identity
C12_Witness ==
  /\ lastOp = "onEnd" /\ sinceCommit = 0 /\ tool \in WarpTools
  /\ ActiveHasData
  /\ FindLayer(layers, activeLayerId).imageData = activeOriginalDataRef
  /\ IsIdentityMap(CurrentEngine)
  /\ \A img \in WarpImages : activeOriginalDataRef.data # img.data

----------------------------------------------------------------------------
(* Properties: the gesture *)

\* C13: a gesture that is Active (isDrawing) returns to Idle when the pointer
\* is released or leaves the canvas: mouseup, mouseleave and touchend all run
\* onEnd, which sets isDrawing to false and runs the tool's commit (the bake
\* for a warp tool on a layer with image data, the mask for a lasso path of
\* three points or more), so no gesture stays Active.
C13_GestureEnds ==
  /\ [][(StepOf("onEnd") /\ isDrawing) =>
          /\ ~isDrawing' /\ lastPoint' = NoPoint
          /\ (tool \in WarpTools /\ ActiveHasData) => sinceCommit' = 0
          /\ (tool = "LASSO" /\ ~LassoInert) => sinceCommit' = 0]_vars
  /\ isDrawing ~> ~isDrawing

\* C13 witness: a gesture was active, a move had been made, and the release
\* ended it with a commit
C13_Witness ==
  /\ lastOp = "onEnd" /\ ~isDrawing /\ sinceCommit = 0
  /\ Len(lastCommits) > 0 /\ lastCommits[Len(lastCommits)].gap >= 2

----------------------------------------------------------------------------
(* Properties: the engine refs *)

\* C14: in every reachable state where the engine map exists, mapX and mapY
\* each have exactly width*height entries of the raster held in
\* activeOriginalDataRef, and that raster is the image data (the same buffer)
\* of the active layer.
C14_MapMatchesRaster ==
  (mapXRef # <<>> \/ mapYRef # <<>>) =>
     /\ activeOriginalDataRef # NullImage
     /\ Len(mapXRef) = activeOriginalDataRef.width * activeOriginalDataRef.height
     /\ Len(mapYRef) = activeOriginalDataRef.width * activeOriginalDataRef.height
     /\ activeLayerId \in LayerIds(layers)
     /\ loadedLayerIdRef = activeLayerId
     /\ FindLayer(layers, activeLayerId).imageData = activeOriginalDataRef

\* C14 witness: the map exists over the raster of a layer that became active
\* by a switch, an undo or a redo from a layer whose raster has another size
C14_Witness ==
  /\ lastOp \in {"setActiveLayerId", "undoAction", "redoAction"}
  /\ mapXRef # <<>>
  /\ Len(layers) = 2
  /\ layers[1].imageData.width # layers[2].imageData.width
  /\ Len(mapXRef) = 1

\* The active layer after the step is in the stack and has image data
NextActiveHasData ==
  /\ activeLayerId' \in LayerIds(layers')
  /\ FindLayer(layers', activeLayerId').imageData # NullImage

\* The step changes the active layer id, or is an image load, an undo or a
\* redo (which replace the rasters of the stack)
ActiveReplaced ==
  \/ activeLayerId' # activeLayerId
  \/ StepOf("addImageLayer") \/ StepOf("undoAction") \/ StepOf("redoAction")

\* C15: a step that changes the active layer id, an image load, an undo and a
\* redo leave the map at the identity over the raster of the layer that is
\* active after the step, so that the next stroke starts from it; in every
\* state where no layer with image data is active, the map refs, the raster
\* ref and the loaded id are cleared.
C15_MapResetOnSwitch ==
  /\ [][ActiveReplaced =>
          IF NextActiveHasData
          THEN /\ IsIdentityMap(NextEngine)
               /\ activeOriginalDataRef' = FindLayer(layers', activeLayerId').imageData
               /\ loadedLayerIdRef' = activeLayerId'
          ELSE NextEngine = NullEngine]_vars
  /\ [](~ActiveHasData => CurrentEngine = NullEngine)

\* C15 witness: an undo or a redo has put a layer with image data back and
\* the map is the identity over its raster
C15_Witness ==
  /\ lastOp \in {"undoAction", "redoAction"}
  /\ ActiveHasData
  /\ IsIdentityMap(CurrentEngine)
  /\ activeOriginalDataRef = FindLayer(layers, activeLayerId).imageData

----------------------------------------------------------------------------
(* Properties: the active layer *)

\* C16: in every reachable state activeLayerId is the id of a layer in the
\* stack, or the empty string when the stack is empty.
C16_ActiveInStack ==
  IF layers = <<>> THEN activeLayerId = NoId
  ELSE activeLayerId \in LayerIds(layers)

\* C16 witness: the active layer of a stack of two was deleted (the step
\* before the current one in history has it active) and the layer that is
\* left is the active one
C16_Witness ==
  /\ lastOp = "deleteLayer"
  /\ Len(layers) = 1
  /\ activeLayerId = layers[1].id
  /\ historyIndex \in 1..Len(history)
  /\ history[historyIndex].activeLayerId \notin LayerIds(layers) \cup {NoId}

----------------------------------------------------------------------------
(* Properties: the samplers' reads *)

\* sx0, sx1, sy0, sy1 of both samplers for the point (u, v): the columns and
\* rows of the four neighbours read are cells of the w x h raster
CornersInside(w, h, u, v) ==
  /\ ClampIndex(w, Floor(u)) \in 0..(w - 1)
  /\ ClampIndex(w, Floor(u) + 1) \in 0..(w - 1)
  /\ ClampIndex(h, Floor(v)) \in 0..(h - 1)
  /\ ClampIndex(h, Floor(v) + 1) \in 0..(h - 1)

\* The pixels whose lookup point applyDistortion samples in call c
SampledPixels(c) ==
  {i \in 1..(RasterW * RasterH) :
     /\ InBox(c, RasterW, RasterH, PixelX(i), PixelY(i))
     /\ DistSq(c, PixelX(i), PixelY(i)) < RadiusSq(c)}

\* A point is outside the raster
OutsideRaster(u, v) ==
  \/ u < 0 \/ u > (RasterW - 1) * UNIT
  \/ v < 0 \/ v > (RasterH - 1) * UNIT

\* C17: whatever the map holds and wherever a lookup point lies, the columns
\* and rows the bilinear samplers read are inside the raster: those
\* renderRegionFromMapsRef reads for every entry of the current map, and those
\* applyDistortion's sample reads for every lookup point of the stroke just
\* applied.
C17_SamplerInBounds ==
  mapXRef # <<>> =>
     /\ \A i \in 1..(RasterW * RasterH) :
           CornersInside(RasterW, RasterH, mapXRef[i], mapYRef[i])
     /\ distortCalls # <<>> =>
           \A i \in SampledPixels(distortCalls[Len(distortCalls)]) :
              LET look == SourceLookup(distortCalls[Len(distortCalls)], PixelX(i), PixelY(i))
              IN CornersInside(RasterW, RasterH, look[1], look[2])

\* C17 witness: a stroke was applied whose lookup point for some pixel lies
\* outside the raster, on a map that holds a point outside the raster
C17_Witness ==
  /\ lastOp = "applyDistortion"
  /\ distortCalls # <<>>
  /\ \E i \in SampledPixels(distortCalls[Len(distortCalls)]) :
        LET look == SourceLookup(distortCalls[Len(distortCalls)], PixelX(i), PixelY(i))
        IN OutsideRaster(look[1], look[2])
  /\ \E i \in 1..(RasterW * RasterH) : OutsideRaster(mapXRef[i], mapYRef[i])

----------------------------------------------------------------------------
(* Properties: the inert tool *)

\* No raster and no map: no layer with image data is active
EngineNull == mapXRef = <<>> /\ mapYRef = <<>> /\ activeOriginalDataRef = NullImage

\* C18: when no layer with image data is active and the engine refs are null,
\* a move of a warp-family gesture, the pointer-up that asks for the bake, and
\* the release of a lasso leave layers, the map refs, the raster ref, history
\* and historyIndex as they are.
C18_InertWithoutRaster ==
  [][(/\ EngineNull /\ ~ActiveHasData /\ isDrawing
      /\ tool \in WarpTools \cup {"LASSO"}
      /\ StepOf("onMove") \/ StepOf("onEnd"))
       => UNCHANGED <<layers, mapXRef, mapYRef, activeOriginalDataRef, history,
                      historyIndex>>]_vars

\* C18 witness: with no layer in the stack, a lasso of three points was
\* released, and nothing was committed by the gesture
C18_Witness ==
  /\ lastOp = "onEnd" /\ ~isDrawing
  /\ EngineNull /\ layers = <<>>
  /\ tool = "LASSO" /\ Len(lassoPath) >= 3
  /\ sinceCommit >= 2

\* C19: the release of a lasso gesture whose path has fewer than three points
\* (the pointer went down and fewer than two moves followed) leaves the
\* layers and their rasters, the map, history and historyIndex as they are.
C19_ShortLassoInert ==
  [][(StepOf("onEnd") /\ isDrawing /\ tool = "LASSO" /\ Len(lassoPath) < 3)
       => UNCHANGED <<layers, mapXRef, mapYRef, activeOriginalDataRef, history,
                      historyIndex>>]_vars

\* C19 witness: on a layer with image data, a lasso of two points (pointer
\* down, one move) was released and nothing was committed
C19_Witness ==
  /\ lastOp = "onEnd" /\ ~isDrawing
  /\ tool = "LASSO" /\ Len(lassoPath) = 2
  /\ ActiveHasData /\ ~EngineNull
  /\ sinceCommit >= 2

----------------------------------------------------------------------------
(* Properties: the brush box *)

\* The call of the applyDistortion step: its centre is the pointer position
\* the step leaves in lastPoint
BoxCall ==
  DistortCall(lastPoint'[1], lastPoint'[2], lastPoint'[1], lastPoint'[2],
              LocalRadius(brushSettings.size, zoomLevel,
                          FindLayer(layers, activeLayerId).scale),
              brushSettings.strength, tool)

\* regionW <= 0 or regionH <= 0
BoxDegenerate(c) ==
  \/ BoxMaxX(c, RasterW) - BoxMinX(c) <= 0
  \/ BoxMaxY(c, RasterH) - BoxMinY(c) <= 0

\* C20: an applyDistortion call whose bounding box, clamped to the raster, has
\* zero or negative width or height leaves the whole map unchanged; the box
\* is clamped to the raster (min at 0 or more, max at width or height at
\* most), so a box that is not degenerate lies inside the raster, and no
\* pixel outside the box is written.
C20_DegenerateBoxInert ==
  [][(StepOf("applyDistortion") /\ ~EngineNull) =>
       /\ BoxDegenerate(BoxCall) => UNCHANGED <<mapXRef, mapYRef>>
       /\ 0 <= BoxMinX(BoxCall) /\ BoxMaxX(BoxCall, RasterW) <= RasterW
       /\ 0 <= BoxMinY(BoxCall) /\ BoxMaxY(BoxCall, RasterH) <= RasterH
       /\ \A i \in 1..(RasterW * RasterH) :
             ~InBox(BoxCall, RasterW, RasterH, PixelX(i), PixelY(i))
                => mapXRef'[i] = mapXRef[i] /\ mapYRef'[i] = mapYRef[i]]_vars

\* C20 witness: after a stroke that changed the map, a stroke with the brush
\* entirely left of the raster was applied and the map is still there
C20_Witness ==
  /\ lastOp = "applyDistortion" /\ events = 2
  /\ lastPoint # NoPoint /\ lastPoint[1] < 0
  /\ ~EngineNull /\ ~IsIdentityMap(CurrentEngine)

\* ---------------------------------------------------------------------------
\* TRANSFORM gestures
\* ---------------------------------------------------------------------------
TransformFields == {"x", "y", "scale", "rotation"}

\* A pointer-down, move or release of a gesture made with the TRANSFORM tool
TransformStep ==
  /\ tool = "TRANSFORM"
  /\ events' = events + 1
  /\ lastOp' \in {"onStart", "onMove", "onEnd"}

\* The layers differ at most in the transform fields of the layer of the given id
SameButTransform(before, after, id) ==
  /\ Len(after) = Len(before)
  /\ \A i \in 1..Len(before) :
        /\ after[i].imageData = before[i].imageData
        /\ \A f \in (DOMAIN before[i]) \ TransformFields : after[i][f] = before[i][f]
        /\ before[i].id # id => after[i] = before[i]

\* C21: every step of a TRANSFORM gesture (pointer-down, move, release) leaves
\* mapX, mapY, the active raster and every layer's pixel data unchanged and
\* changes at most x, y, scale and rotation of the active layer
C21_TransformFrame ==
  [][TransformStep =>
       /\ mapXRef' = mapXRef
       /\ mapYRef' = mapYRef
       /\ activeOriginalDataRef' = activeOriginalDataRef
       /\ activeLayerId' = activeLayerId
       /\ SameButTransform(layers, layers', activeLayerId)]_vars

\* A released TRANSFORM gesture that moved, scaled or rotated the layer over a
\* map that holds an unbaked stroke
C21_TransformFrame_Witness ==
  /\ tool = "TRANSFORM"
  /\ lastOp = "onEnd"
  /\ ~EngineNull /\ ~IsIdentityMap(CurrentEngine)
  /\ \E i \in 1..Len(layers) :
        /\ layers[i].id = activeLayerId
        /\ \/ layers[i].x # 0
           \/ layers[i].scale # UNIT
           \/ layers[i].rotation # 0

\* A move and a release of a drag made with the TRANSFORM tool
TransformMove == tool = "TRANSFORM" /\ isDrawing /\ StepOf("onMove")

TransformRelease == tool = "TRANSFORM" /\ isDrawing /\ StepOf("onEnd")

\* The live layer of the active id after a move to one of the pointer positions
PreviewedLayer ==
  {MergeLayer(FindLayer(layers, activeLayerId), TransformUpdates(p)) : p \in TransformPoints}

\* C22: during a transform drag a move leaves history and historyIndex unchanged
\* and, when a handle is held, gives the live layer the updates of the pointer
\* position; the release appends exactly one snapshot after the current one,
\* deep-equal to the live layers with the final transform, and moves
\* historyIndex to it
C22_TransformCommitsOnce ==
  [][/\ TransformMove =>
          /\ history' = history
          /\ historyIndex' = historyIndex
          /\ (/\ startTransformState # NoTransform
              /\ transformHandle # "NONE"
              /\ activeLayerId \in LayerIds(layers)) =>
                FindLayer(layers', activeLayerId) \in PreviewedLayer
     /\ TransformRelease =>
          /\ layers' = layers
          /\ Len(history') = historyIndex + 2
          /\ SubSeq(history', 1, historyIndex + 1) = SubSeq(history, 1, historyIndex + 1)
          /\ DeepEqual(history'[Len(history')].layers, layers)
          /\ history'[Len(history')].activeLayerId = activeLayerId
          /\ historyIndex' = historyIndex + 1]_vars

\* A released corner or body drag: the newest snapshot holds the changed transform
C22_Witness ==
  /\ tool = "TRANSFORM"
  /\ lastOp = "onEnd"
  /\ sinceCommit = 0
  /\ Len(history) = 3
  /\ historyIndex = 2
  /\ \/ history[3].layers[1].scale # history[2].layers[1].scale
     \/ history[3].layers[1].x # history[2].layers[1].x

\* ---------------------------------------------------------------------------
\* Failing generation and upload
\* ---------------------------------------------------------------------------
\* A step in which a generation, a file read or an image decode fails
FailureStep ==
  /\ events' = events + 1
  /\ lastOp' \in {"generateRejected", "readerOnerror", "imgOnerror"}

\* C23: when a generation, a file read or an image decode fails, the user is
\* notified and layers, activeLayerId, history and historyIndex are unchanged
C23_FailureNotified ==
  [][FailureStep => alerts' = alerts + 1 /\ UNCHANGED appVars]_vars

\* C24: in every reachable state, whatever the pointer positions of the corner
\* drags so far (the layer's centre included), every layer's scale is above 0
C24_ScalePositive ==
  \A i \in 1..Len(layers) : layers[i].scale > 0

\* ---------------------------------------------------------------------------
\* Discrete actions and their snapshots
\* ---------------------------------------------------------------------------
\* A step that completes a discrete action: a layer add, duplicate, delete,
\* visibility toggle or property change, a reorder that moved a layer, or a
\* release that replaced a raster (warp bake, lasso mask)
DiscreteStep ==
  \/ \E op \in {"addImageLayer", "duplicateActiveLayer", "deleteLayer",
                "toggleLayerVisibility", "updateLayerProperty"} : StepOf(op)
  \/ StepOf("moveLayer") /\ layers' # layers
  \/ StepOf("onEnd") /\ layers' # layers

\* history' is a prefix of history followed by one new entry
OneAppended ==
  \E k \in 0..Len(history) :
     /\ Len(history') = k + 1
     /\ SubSeq(history', 1, k) = SubSeq(history, 1, k)

\* C25: every completed discrete action appends exactly one snapshot, and that
\* snapshot is deep-equal to the resulting layers and holds the resulting
\* active layer id
C25_OneSnapshotPerAction ==
  [][DiscreteStep =>
       /\ sinceCommit' = 0
       /\ OneAppended
       /\ DeepEqual(history'[Len(history')].layers, layers')
       /\ history'[Len(history')].activeLayerId = activeLayerId']_vars

\* A warp bake committed on top of the snapshot of the layer add
C25_Witness ==
  /\ lastOp = "onEnd"
  /\ sinceCommit = 0
  /\ tool \in WarpTools
  /\ Len(history) = 3
  /\ historyIndex = 2
  /\ DeepEqual(history[3].layers, layers)
  /\ history[3].layers[1].imageData.data # history[2].layers[1].imageData.data

\* C26: whenever no gesture is in progress the engine has no map or its map is
\* the identity, however the last gesture ended
C26_IdleMapIdentity ==
  ~isDrawing => (EngineNull \/ IsIdentityMap(CurrentEngine))

\* C27: historyIndex is the index of an existing snapshot in every reachable
\* state, whatever the order of commits, undos, redos and image load completions
C27_IndexInRange ==
  0 <= historyIndex /\ historyIndex < Len(history)

\* C28: the completion of an asynchronous layer add appends the new layer to
\* the layers of the completion time, which stay present and unchanged below
\* it, and the snapshot it commits is deep-equal to the result
C28_AddKeepsCurrentStack ==
  [][StepOf("addImageLayer") =>
       /\ Len(layers') = Len(layers) + 1
       /\ SubSeq(layers', 1, Len(layers)) = layers
       /\ DeepEqual(history'[Len(history')].layers, layers')]_vars

\* C29: a redo that follows at once an undo made at the last snapshot, above
\* index 0 and with no gesture in progress, leaves the layers deep-equal to those
\* before the undo and the active layer id as it was before the undo
C29_UndoThenRedo ==
  [][(beforeUndo # NoUndo /\ StepOf("redoAction")) =>
        /\ DeepEqual(layers', beforeUndo.layers)
        /\ activeLayerId' = beforeUndo.activeLayerId]_vars

\* The release of a gesture that changed nothing: a warp tool pressed and
\* released without a move over an identity map, or the TRANSFORM tool pressed
\* on no handle or with no active layer
IdleRelease ==
  /\ isDrawing
  /\ StepOf("onEnd")
  /\ \/ /\ tool \in WarpTools
        /\ lastOp = "onStart"
        /\ EngineNull \/ IsIdentityMap(CurrentEngine)
     \/ /\ tool = "TRANSFORM"
        /\ transformHandle = "NONE" \/ ~(activeLayerId \in LayerIds(layers))

\* C30: the release of a gesture that changed nothing leaves history and
\* historyIndex unchanged
C30_IdleGestureNoSnapshot ==
  [][IdleRelease => history' = history /\ historyIndex' = historyIndex]_vars

\* ---------------------------------------------------------------------------
\* The calls of a warp gesture
\* ---------------------------------------------------------------------------
\* The applyDistortion call for the segment from prev to curr (world points),
\* in the local coordinates of the active layer
SegmentCall(prev, curr) ==
  LET layer == FindLayer(layers, activeLayerId)
      a == worldToLocal(prev, layer, activeOriginalDataRef.width, activeOriginalDataRef.height)
      b == worldToLocal(curr, layer, activeOriginalDataRef.width, activeOriginalDataRef.height)
  IN [mouseX |-> b[1], mouseY |-> b[2], prevX |-> a[1], prevY |-> a[2],
      localRadius |-> LocalRadius(brushSettings.size, zoomLevel, layer.scale),
      strength |-> brushSettings.strength, tool |-> tool]

\* A move event of a warp gesture over the raster of the active layer
WarpMove ==
  /\ tool \in WarpTools
  /\ isDrawing
  /\ lastPoint # NoPoint
  /\ ActiveHasData
  /\ ~EngineNull
  /\ StepOf("onMove")

\* C31: the pointer-down of a warp gesture applies no distortion and records its
\* point; every move event applies exactly one applyDistortion call, for the
\* segment from the previous point to the point of the move, both in local
\* coordinates, and records the point of the move as the previous point
C31_OneCallPerMove ==
  [][/\ (tool \in WarpTools /\ StepOf("onStart")) =>
          /\ NextEngine = CurrentEngine
          /\ distortCalls' = distortCalls
          /\ lastPoint' # NoPoint
     /\ WarpMove =>
          /\ lastPoint' # NoPoint
          /\ NextEngine = applyDistortion(CurrentEngine, SegmentCall(lastPoint, lastPoint'))
          /\ distortCalls' = CallsAfter(NextEngine,
                                        Append(distortCalls, SegmentCall(lastPoint, lastPoint')))
    ]_vars

\* Two move events of one gesture: two calls, the second starting where the
\* first one ended
C31_Witness ==
  /\ lastOp = "onMove"
  /\ tool \in WarpTools
  /\ isDrawing
  /\ Len(distortCalls) = 2
  /\ distortCalls[2].prevX = distortCalls[1].mouseX
  /\ distortCalls[2].prevY = distortCalls[1].mouseY
  /\ <<distortCalls[2].mouseX, distortCalls[2].mouseY>>
       # <<distortCalls[2].prevX, distortCalls[2].prevY>>

\* C32: a move, a pointer-up or a pointer-leave received while no gesture is
\* active changes no variable, so every onMove and onEnd step that changes
\* something starts in a state with a gesture in progress; a release is never
\* followed at once by a second effective release (pointer-up, then
\* pointer-leave)
C32_IdleEventsInert ==
  [][/\ (StepOf("onMove") \/ StepOf("onEnd")) => isDrawing
     /\ lastOp = "onEnd" => ~StepOf("onEnd")]_vars

\* A release has just committed a bake: the gesture is over, and the pointer-leave
\* that follows finds isDrawing false
C32_Witness ==
  /\ lastOp = "onEnd"
  /\ ~isDrawing
  /\ sinceCommit = 0
  /\ Len(history) >= 3
  /\ historyIndex = Len(history) - 1

\* ---------------------------------------------------------------------------
\* Lasso over a pending warp
\* ---------------------------------------------------------------------------
\* newData is oldData with alpha 0 at the pixels the polygon's mask leaves out
MaskedOutside(oldData, newData, poly) ==
  /\ Len(newData) = Len(oldData)
  /\ \A i \in 1..(RasterW * RasterH) :
        /\ \A c \in 1..3 : newData[4 * (i - 1) + c] = oldData[4 * (i - 1) + c]
        /\ newData[4 * i] = IF MaskCovers(poly, PixelX(i), PixelY(i)) THEN oldData[4 * i] ELSE 0

\* C33: a lasso of three points or more released over a map that is not the
\* identity gives the active layer the full render of the map over its raster,
\* with alpha 0 outside the lasso; the render differs from the unwarped raster
\* wherever the warp moved pixels. Afterwards the map is the identity over the
\* new raster and the lasso path is empty
C33_LassoBakesFirst ==
  [][(LassoRelease /\ ~IsIdentityMap(CurrentEngine)) =>
        /\ MaskedOutside(renderRegionFromMapsRef(0, 0, RasterW, RasterH, RasterW, RasterH,
                                                 mapXRef, mapYRef, activeOriginalDataRef),
                         FindLayer(layers', activeLayerId).imageData.data, LocalLassoPath)
        /\ IsIdentityMap(NextEngine)
        /\ activeOriginalDataRef' = FindLayer(layers', activeLayerId).imageData
        /\ lassoPath' = <<>>]_vars

\* A lasso release has committed a raster whose colour channels differ from
\* the snapshot before it: the pending warp was baked into it
C33_Witness ==
  /\ lastOp = "onEnd"
  /\ tool = "LASSO"
  /\ sinceCommit = 0
  /\ Len(history) >= 3
  /\ historyIndex = Len(history) - 1
  /\ lassoPath = <<>>
  /\ IsIdentityMap(CurrentEngine)
  /\ \E k \in 1..Len(activeOriginalDataRef.data) :
        /\ (k - 1) % 4 # 3
        /\ history[Len(history)].layers[1].imageData.data[k]
             # history[Len(history) - 1].layers[1].imageData.data[k]

\* ---------------------------------------------------------------------------
\* BLOAT and PUCKER
\* ---------------------------------------------------------------------------
\* A call of the BLOAT or the PUCKER tool with a positive strength
RadialStep == StrokeStep /\ StrokeCall.tool \in {"BLOAT", "PUCKER"} /\ StrokeCall.strength > 0

\* The pixels strictly inside the brush of call c, the brush centre left out
InsidePixels(c) ==
  {i \in 1..Len(mapXRef) :
     /\ PixelDistSq(i, c.mouseX, c.mouseY) < c.localRadius * c.localRadius
     /\ PixelDistSq(i, c.mouseX, c.mouseY) > 0}

\* The offset of pixel i from the brush centre, and of its lookup point
PixelOffset(c, i) == <<PixelX(i) * UNIT - c.mouseX, PixelY(i) * UNIT - c.mouseY>>

LookupOffset(c, i) ==
  <<SourceLookup(c, PixelX(i), PixelY(i))[1] - c.mouseX,
    SourceLookup(c, PixelX(i), PixelY(i))[2] - c.mouseY>>

NormSq(v) == v[1] * v[1] + v[2] * v[2]

\* Every pixel at distance R or more keeps its map entries
RimUnchanged(c) ==
  \A i \in 1..Len(mapXRef) :
     PixelDistSq(i, c.mouseX, c.mouseY) >= c.localRadius * c.localRadius
     => mapXRef'[i] = mapXRef[i] /\ mapYRef'[i] = mapYRef[i]

\* The displacement offset * power * 0.1 of pixel i on axis a, times RadialDenominator
RadialDenominator == 10 * FINE * UNIT

RadialNumerator(c, i, a) ==
  PixelOffset(c, i)[a] * Power(c, PixelDistSq(i, c.mouseX, c.mouseY))

\* C34: for every pixel strictly inside the brush other than the centre, with
\* strength > 0, the lookup point is the pixel moved along the line through
\* the centre by offset * power * 0.1 (each coordinate within half a step of the
\* arithmetic), toward the centre for BLOAT and away from it for PUCKER: it is
\* on the pixel's side of the centre, strictly closer to the centre than the
\* pixel for BLOAT and strictly farther for PUCKER; at distance R or more the
\* map is unchanged
C34_RadialLookup ==
  [][RadialStep =>
       /\ \A i \in InsidePixels(StrokeCall) :
             LET off == PixelOffset(StrokeCall, i)
                 look == LookupOffset(StrokeCall, i)
                 sign == IF StrokeCall.tool = "BLOAT" THEN 1 ELSE 0 - 1
             IN /\ \A a \in {1, 2} :
                      2 * Abs(sign * (off[a] - look[a]) * RadialDenominator
                              - RadialNumerator(StrokeCall, i, a)) <= RadialDenominator
                /\ look[1] * off[1] + look[2] * off[2] > 0
                /\ sign * NormSq(look) < sign * NormSq(off)
       /\ RimUnchanged(StrokeCall)]_vars

\* A BLOAT or PUCKER call that moved the lookup point of a pixel inside the brush
C34_Witness ==
  /\ lastOp = "applyDistortion"
  /\ tool \in {"BLOAT", "PUCKER"}
  /\ Len(distortCalls) >= 1
  /\ \E i \in InsidePixels(distortCalls[Len(distortCalls)]) :
        LookupOffset(distortCalls[Len(distortCalls)], i)
          # PixelOffset(distortCalls[Len(distortCalls)], i)

(***************************************************************************)
(* The layer panel: deleteLayer, moveLayer, selection                      *)
(***************************************************************************)

\* The stack without its i-th layer, the others in their order
WithoutIndex(ls, i) ==
  [j \in 1..(Len(ls) - 1) |-> IF j < i THEN ls[j] ELSE ls[j + 1]]

\* C35: deleteLayer removes exactly the layer with the given id and keeps the
\* order of the others; deleting the active layer makes the last layer of the
\* remaining array active, deleting another layer keeps the active id, and
\* deleting the only layer sets the active id to the empty string
C35_DeleteLayer ==
  [][StepOf("deleteLayer") =>
       \E i \in 1..Len(layers) :
          /\ layers' = WithoutIndex(layers, i)
          /\ layers[i].id \notin LayerIds(layers')
          /\ (layers[i].id = activeLayerId /\ Len(layers) > 1)
                => activeLayerId' = layers'[Len(layers')].id
          /\ layers[i].id # activeLayerId => activeLayerId' = activeLayerId
          /\ Len(layers) = 1 => activeLayerId' = NoId]_vars

\* The active bottom layer of a stack of three was deleted: the top one of the
\* two that are left is active
C35_Witness ==
  /\ lastOp = "deleteLayer"
  /\ Len(layers) = 2
  /\ activeLayerId = layers[2].id
  /\ historyIndex \in 1..(Len(history) - 1)
  /\ Len(history[historyIndex].layers) = 3
  /\ history[historyIndex].layers[1].id \notin LayerIds(layers)
  /\ LayerIds(history[historyIndex + 1].layers) = LayerIds(layers)

\* An id that no layer has
UnknownLayerId == FreshId

\* The places of the stack where the layer with this id is
PlacesOf(ls, id) == {i \in 1..Len(ls) : ls[i].id = id}

\* The place a layer at place i is moved to: the next higher for 'up', the next lower for 'down'
Neighbour(i, dir) == IF dir = "up" THEN i + 1 ELSE i - 1

\* C36: moveLayer(id, 'up') swaps the layer with the one at the next higher
\* index and 'down' with the one at the next lower index, the result being a
\* permutation of the stack with activeLayerId unchanged; for the topmost
\* layer moved up, the bottom layer moved down and an unknown id, layers and
\* history are unchanged
C36_MoveLayer ==
  [][\A id \in LayerIds(layers) \cup {UnknownLayerId}, dir \in {"up", "down"} :
        moveLayer(id, dir) =>
          IF \E i \in PlacesOf(layers, id) : Neighbour(i, dir) \in 1..Len(layers)
          THEN \E i \in PlacesOf(layers, id) :
                  /\ layers' = [layers EXCEPT ![i] = layers[Neighbour(i, dir)],
                                              ![Neighbour(i, dir)] = layers[i]]
                  /\ Len(layers') = Len(layers)
                  /\ {layers'[k] : k \in 1..Len(layers')} = {layers[k] : k \in 1..Len(layers)}
                  /\ activeLayerId' = activeLayerId
          ELSE UNCHANGED <<layers, history, historyIndex>>]_vars
  /\ [](\A id \in LayerIds(layers) \cup {UnknownLayerId}, dir \in {"up", "down"} :
          (\A i \in PlacesOf(layers, id) : Neighbour(i, dir) \notin 1..Len(layers))
          => ~ENABLED (moveLayer(id, dir) /\ ~UNCHANGED <<layers, history, historyIndex>>))

\* The top layer of a stack of three was moved down, or the middle one up: the
\* snapshot before has the two upper layers the other way round and the same
\* active layer
C36_Witness ==
  /\ lastOp = "moveLayer"
  /\ Len(layers) = 3
  /\ historyIndex \in 1..(Len(history) - 1)
  /\ Len(history[historyIndex].layers) = 3
  /\ history[historyIndex].layers[1].id = layers[1].id
  /\ history[historyIndex].layers[2].id = layers[3].id
  /\ history[historyIndex].layers[3].id = layers[2].id
  /\ history[historyIndex].activeLayerId = activeLayerId

(***************************************************************************)
(* Undo and redo at the ends of history                                    *)
(***************************************************************************)

\* C37: undoAction at historyIndex 0 and redoAction at the last index change
\* nothing, and no undo or redo changes the contents or the length of history
C37_HistoryKept ==
  /\ [][(StepOf("undoAction") \/ StepOf("redoAction")) => history' = history]_vars
  /\ [](historyIndex = 0 => ~ENABLED (undoAction /\ ~UNCHANGED vars))
  /\ [](historyIndex = Len(history) - 1 => ~ENABLED (redoAction /\ ~UNCHANGED vars))

\* Three undos took the stack of three back to the empty initial snapshot with
\* all four snapshots still in history
C37_Witness ==
  /\ lastOp = "undoAction"
  /\ historyIndex = 0
  /\ layers = <<>>
  /\ Len(history) = 4
  /\ Len(history[4].layers) = 3
  /\ events < MaxEvents

\* C38: selecting a layer in the layer list changes activeLayerId and leaves
\* the layer stack, history and historyIndex unchanged
C38_SelectionOnly ==
  [][StepOf("setActiveLayerId") =>
       /\ activeLayerId' \in LayerIds(layers) \ {activeLayerId}
       /\ UNCHANGED <<layers, history, historyIndex>>]_vars

\* The other layer of a stack of two was selected: the current snapshot still
\* has the layer that was active before
C38_Witness ==
  /\ lastOp = "setActiveLayerId"
  /\ Len(layers) = 2
  /\ historyIndex = Len(history) - 1
  /\ At(history, historyIndex).activeLayerId \in LayerIds(layers) \ {activeLayerId}

(***************************************************************************)
(* The raster of a loaded image                                            *)
(***************************************************************************)

\* The size the claim gives the raster of a source of this size
ProportionalSize(width, height) ==
  IF width <= MAX_IMAGE_DIMENSION /\ height <= MAX_IMAGE_DIMENSION THEN <<width, height>>
  ELSE IF width >= height
       THEN <<MAX_IMAGE_DIMENSION, (2 * MAX_IMAGE_DIMENSION * height + width) \div (2 * width)>>
       ELSE <<(2 * MAX_IMAGE_DIMENSION * width + height) \div (2 * height), MAX_IMAGE_DIMENSION>>

\* C39: img.onload of addImageLayer gives the loaded image, for every source
\* width and height >= 1, a layer whose raster has a width and a height from 1
\* to MAX_IMAGE_DIMENSION: the source's size when it is within the limit, and
\* otherwise the longer side at 2048 with the other side the rounded proportional value
C39_RasterWithinLimit ==
  [][\A k \in 1..Len(pendingLoads) :
        imgOnload(k) =>
          /\ Len(layers') = Len(pendingLoads[k].layers) + 1
          /\ LET raster == layers'[Len(layers')].imageData
                 img == pendingLoads[k].img
             IN /\ raster.width \in 1..MAX_IMAGE_DIMENSION
                /\ raster.height \in 1..MAX_IMAGE_DIMENSION
                /\ <<raster.width, raster.height>> = ProportionalSize(img.width, img.height)
                /\ Len(raster.data) = 4 * raster.width * raster.height]_vars

(***************************************************************************)
(* isGenerating                                                            *)
(***************************************************************************)

\* isGenerating: a generation was started and its await has not ended
IsGenerating == pendingGeneration # NoGeneration

\* C40: every handleGenerate call sets isGenerating to true at its start, and
\* the end of its await, by a result or by an error, sets it back to false;
\* isGenerating changes at no other step, and every generation that settles
\* leaves isGenerating false in the end
C40_GenerationEnds ==
  /\ [][/\ StepOf("handleGenerate") => ~IsGenerating /\ IsGenerating'
        /\ (StepOf("generateResolved") \/ StepOf("generateRejected"))
             => IsGenerating /\ ~IsGenerating'
        /\ (IsGenerating' # IsGenerating)
             => \/ StepOf("handleGenerate")
                \/ StepOf("generateResolved")
                \/ StepOf("generateRejected")]_vars
  /\ IsGenerating ~> ~IsGenerating

\* A generation failed while an image was still loading: the alert was shown
\* and isGenerating is false again
C40_Witness ==
  /\ lastOp = "generateRejected"
  /\ ~IsGenerating
  /\ alerts = 1
  /\ Len(pendingLoads) = MaxPending
====
